---- MODULE Spec2Model ----
(***************************************************************************)
(* Rate limiting and adaptive IP blocking of the authentication backend    *)
(* (Google-SignIn-SignUp/apps/backend/authentication): the sliding-window  *)
(* counters of RedisRateLimiter on its two backends, the verdict of        *)
(* check_rate_limit, the BlockedIP registry with its rule escalation, and  *)
(* the two interceptors (RateLimitMiddleware, the rate_limit decorator).   *)
(*                                                                         *)
(* Time is the integer clock int(time.time()); paths are sequences of      *)
(* segments, <<"auth","login">> standing for "/auth/login/".               *)
(***************************************************************************)
EXTENDS Integers, Sequences, FiniteSets, Bags, TLC

(***************************************************************************)
(* Bounds of the model.                                                    *)
(***************************************************************************)
MaxRequests == 3      \* requests entering an interceptor in one behaviour
MaxTicks == 1         \* clock advances in one behaviour
MaxAdminOps == 2      \* administrative calls in one behaviour
MaxCalls == 3         \* direct calls of the limiter in one behaviour

(***************************************************************************)
(* Inputs.                                                                 *)
(***************************************************************************)
T0 == 200000                       \* the clock's value at start
TickSteps == {1, 3601}  \* amounts by which the clock advances
IPs == {"10.0.0.1"}
NoUser == ""                       \* user_identifier None / empty (falsy)
UserIds == {"a@x.org"}
NoExpiry == 0 - 1                  \* block_expires_at IS NULL / key without TTL
NoRule == "none"

Scopes == {"ip", "user"}
Windows == {"minute", "hour", "day"}
WindowOrder == <<"minute", "hour", "day">>

P_login == <<"auth", "login">>
Paths == {P_login}
DecoratorActions == {"login"}
Actions == {"login", "api"}
Statuses == {200, 401}

(***************************************************************************)
(* Small helpers.                                                          *)
(***************************************************************************)
Max2(a, b) == IF a >= b THEN a ELSE b

\* s.startswith(prefix) on segment sequences
StartsWith(path, prefix) ==
    /\ Len(prefix) <= Len(path)
    /\ \A i \in 1..Len(prefix) : path[i] = prefix[i]

\* `needle in path` on segment sequences (contiguous occurrence)
Contains(path, needle) ==
    \E off \in 0..(Len(path) - Len(needle)) :
        \A i \in 1..Len(needle) : path[off + i] = needle[i]

(***************************************************************************)
(* Counter store: keys and the two backends.                               *)
(* A key is <<action, scope, identifier, window>>, the model of            *)
(* f"rate_limit:{action}:{scope}:{identifier}:{window}".                   *)
(***************************************************************************)
RateLimitKey(action, scope, id, window) == <<action, scope, id, window>>
Keys == (Actions \X {"ip"} \X IPs \X Windows)
        \cup (Actions \X {"user"} \X UserIds \X Windows)

WindowSeconds(w) == CASE w = "minute" -> 60 [] w = "hour" -> 3600 [] OTHER -> 86400
\* the expiry set on a key by a record (expire / cache timeout)
KeyTimeout(w) == CASE w = "minute" -> 120 [] w = "hour" -> 7200 [] OTHER -> 172800
CacheFilterTimeout == 300

\* Backend failure injected into one count call: none, the first backend
\* call raises, or the second backend call raises.
FailModes == {"ok", "first", "second"}

\* --- Redis sorted set: members are "ts:success" strings scored by ts ------
RedisAbsent == [members |-> {}, exp |-> NoExpiry]
RedisLive(e, t) == IF e.exp # NoExpiry /\ e.exp <= t THEN RedisAbsent ELSE e
\* ZREMRANGEBYSCORE key lo hi; a sorted set left empty is deleted
ZRemRangeByScore(e, lo, hi) ==
    LET kept == {m \in e.members : ~(lo <= m[1] /\ m[1] <= hi)}
    IN  IF kept = {} THEN RedisAbsent ELSE [e EXCEPT !.members = kept]
ZCard(e) == Cardinality(e.members)
\* ZADD key {member: score}: an existing member is only re-scored
ZAdd(e, member) == [e EXCEPT !.members = @ \cup {member}]
Expire(e, t, seconds) == IF e.members = {} THEN e ELSE [e EXCEPT !.exp = t + seconds]

\* a failing Redis call answered with a count above every limit
GetRequestCountRedisFailClosed(e, window_start, t, mode) ==
    LET live == RedisLive(e, t)
        evicted == ZRemRangeByScore(live, 0, window_start)
    IN  CASE mode = "first" -> [count |-> 1000000, entry |-> e]
          [] mode = "second" -> [count |-> 1000000, entry |-> evicted]
          [] OTHER -> [count |-> ZCard(evicted), entry |-> evicted]
GetRequestCountRedis(e, window_start, t, mode) ==
    LET live == RedisLive(e, t)
        evicted == ZRemRangeByScore(live, 0, window_start)
    IN  CASE mode = "first" -> [count |-> 0, entry |-> e]
          [] mode = "second" -> [count |-> 0, entry |-> evicted]
          [] OTHER -> [count |-> ZCard(evicted), entry |-> evicted]

RecordRequestRedis(e, t, success, w) ==
    Expire(ZAdd(RedisLive(e, t), <<t, success>>), t, KeyTimeout(w))

\* --- Django cache: a list of timestamps under the key ---------------------
CacheAbsent == [timestamps |-> <<>>, exp |-> NoExpiry]
CacheLive(e, t) == IF e.exp # NoExpiry /\ e.exp <= t THEN CacheAbsent ELSE e
CacheSet(value, t, timeout) == [timestamps |-> value, exp |-> t + timeout]

\* [ts for ts in timestamps if ts >= window_start]
ValidTimestamps(timestamps, window_start) ==
    SelectSeq(timestamps, LAMBDA ts : ts >= window_start)

GetRequestCountCache(e, window_start, t, mode) ==
    LET live == CacheLive(e, t)
        valid == ValidTimestamps(live.timestamps, window_start)
        changed == Len(valid) # Len(live.timestamps)
    IN  CASE mode = "first" -> [count |-> 0, entry |-> e]
          [] mode = "second" /\ changed -> [count |-> 0, entry |-> live]
          [] OTHER -> [count |-> Len(valid),
                       entry |-> IF changed
                                 THEN CacheSet(valid, t, CacheFilterTimeout)
                                 ELSE live]

RecordRequestCache(e, t, success, w) ==
    CacheSet(Append(CacheLive(e, t).timestamps, t), t, KeyTimeout(w))

(***************************************************************************)
(* Policy (RateLimitConfig) and the per-scope window checks.               *)
(***************************************************************************)
\* Fields of a RateLimitConfig row that hold limits; there is no
\* api_*_limit_per_day field and no field at all for other actions.
ConfigFields ==
    {"login_ip_limit_per_minute", "login_ip_limit_per_hour", "login_ip_limit_per_day",
     "login_user_limit_per_minute", "login_user_limit_per_hour", "login_user_limit_per_day",
     "api_ip_limit_per_minute", "api_ip_limit_per_hour",
     "api_user_limit_per_minute", "api_user_limit_per_hour"}

\* A configuration row: the login limits are the administrator's input,
\* the api limits are the model defaults.
MakeConfig(im, ih, id, um, uh, ud) ==
    [f \in ConfigFields |->
        CASE f = "login_ip_limit_per_minute" -> im
          [] f = "login_ip_limit_per_hour" -> ih
          [] f = "login_ip_limit_per_day" -> id
          [] f = "login_user_limit_per_minute" -> um
          [] f = "login_user_limit_per_hour" -> uh
          [] f = "login_user_limit_per_day" -> ud
          [] f = "api_ip_limit_per_minute" -> 60
          [] f = "api_ip_limit_per_hour" -> 1000
          [] f = "api_user_limit_per_minute" -> 100
          [] OTHER -> 2000]

\* Active configurations the administrator may have stored.
ConfigChoices == {MakeConfig(2, 3, 3, 1, 1, 3)}

\* getattr(self.config, name, default)
GetAttr(cfg, name, default) == IF name \in DOMAIN cfg THEN cfg[name] ELSE default

\* every action looked up under its own name
ConfigActionOwn(action) == action
ConfigAction(action) ==
    IF action \in {"register", "password_reset", "2fa"} THEN "login" ELSE action

\* the getattr defaults of _check_ip_rate_limit / _check_user_rate_limit
DefaultLimit(scope, w) ==
    IF scope = "ip"
    THEN (CASE w = "minute" -> 60 [] w = "hour" -> 1000 [] OTHER -> 10000)
    ELSE (CASE w = "minute" -> 100 [] w = "hour" -> 2000 [] OTHER -> 50000)

LimitFor(cfg, action, scope, w) ==
    GetAttr(cfg, ConfigAction(action) \o "_" \o scope \o "_limit_per_" \o w,
            DefaultLimit(scope, w))

\* _get_request_count on the entry of one key: dispatch on redis_client
GetRequestCount(rc, rentry, centry, window_start, t, mode) ==
    IF rc THEN GetRequestCountRedis(rentry, window_start, t, mode)
          ELSE GetRequestCountCache(centry, window_start, t, mode)

\* the loop stopping at the first tripped window
BlockedWindowFirst(tripped) ==
    IF tripped["minute"] THEN "minute"
    ELSE IF tripped["hour"] THEN "hour"
    ELSE IF tripped["day"] THEN "day"
    ELSE "none"
\* The window named by info['blocked_window'] after the loop over
\* minute, hour, day: every tripped window overwrites the entry.
BlockedWindow(tripped) ==
    IF tripped["day"] THEN "day"
    ELSE IF tripped["hour"] THEN "hour"
    ELSE IF tripped["minute"] THEN "minute"
    ELSE "none"

EmptyInfo ==
    [empty |-> TRUE,
     count |-> [w \in Windows |-> 0],
     limit |-> [w \in Windows |-> 0],
     remaining |-> [w \in Windows |-> 0],
     blocked_window |-> "none"]

\* _check_ip_rate_limit / _check_user_rate_limit (the two differ only in the
\* scope of the key and of the limit).  fail[w] is the failure injected into
\* the count of window w.  Result: the verdict of the scope, its info, and
\* the entries of the scope's three keys after the evictions.
CheckScopeRateLimit(rc, rdb, cdb, cfg, scope, id, action, t, fail) ==
    LET key(w) == RateLimitKey(action, scope, id, w)
        res == [w \in Windows |->
                  GetRequestCount(rc, rdb[key(w)], cdb[key(w)],
                                  t - WindowSeconds(w), t, fail[w])]
        limit == [w \in Windows |-> LimitFor(cfg, action, scope, w)]
        tripped == [w \in Windows |-> res[w].count >= limit[w]]
    IN  [is_limited |-> \E w \in Windows : tripped[w],
         info |-> [empty |-> FALSE,
                   count |-> [w \in Windows |-> res[w].count],
                   limit |-> limit,
                   remaining |-> [w \in Windows |-> Max2(0, limit[w] - res[w].count)],
                   blocked_window |-> BlockedWindow(tripped)],
         entries |-> [w \in Windows |-> res[w].entry]]

\* _calculate_retry_after
WindowDelay(blocked_window) ==
    CASE blocked_window = "minute" -> {60}
      [] blocked_window = "hour" -> {3600}
      [] blocked_window = "day" -> {86400}
      [] OTHER -> {}
\* retry_after taken from the ip scope alone whenever the ip scope tripped
CalculateRetryAfterIpFirst(ip_info, user_info) ==
    IF ip_info.blocked_window # "none"
    THEN CHOOSE d \in WindowDelay(ip_info.blocked_window) : TRUE
    ELSE IF user_info.blocked_window # "none"
    THEN CHOOSE d \in WindowDelay(user_info.blocked_window) : TRUE
    ELSE 0

CalculateRetryAfter(ip_info, user_info) ==
    LET delays == WindowDelay(ip_info.blocked_window)
                  \cup WindowDelay(user_info.blocked_window)
    IN  IF delays = {} THEN 0
        ELSE CHOOSE d \in delays : \A e \in delays : d >= e

(***************************************************************************)
(* Block registry: BlockedIP rows (at most one per ip_address, the column  *)
(* is unique) and IPBlockRule rows.                                        *)
(***************************************************************************)
NoBlock ==
    [exists |-> FALSE, rule |-> NoRule, reason |-> "",
     block_expires_at |-> NoExpiry, attempt_count |-> 0,
     last_attempt_at |-> NoExpiry,
     is_permanent |-> FALSE, is_active |-> FALSE, blocked_by_admin |-> FALSE]

\* is_blocked with the expiry test placed before the permanent test
IsBlockedExpiryFirst(rec, t) ==
    IF ~rec.is_active THEN [result |-> FALSE, rec |-> rec]
    ELSE IF rec.block_expires_at # NoExpiry /\ t > rec.block_expires_at
         THEN [result |-> FALSE, rec |-> [rec EXCEPT !.is_active = FALSE]]
    ELSE [result |-> TRUE, rec |-> rec]

\* is_blocked answering an expired row without saving it as inactive
IsBlockedNoSave(rec, t) ==
    IF ~rec.is_active THEN [result |-> FALSE, rec |-> rec]
    ELSE IF rec.is_permanent THEN [result |-> TRUE, rec |-> rec]
    ELSE IF rec.block_expires_at # NoExpiry /\ t > rec.block_expires_at
         THEN [result |-> FALSE, rec |-> rec]
    ELSE [result |-> TRUE, rec |-> rec]
\* BlockedIP.is_blocked: the answer and the row as saved by the call
IsBlocked(rec, t) ==
    IF ~rec.is_active THEN [result |-> FALSE, rec |-> rec]
    ELSE IF rec.is_permanent THEN [result |-> TRUE, rec |-> rec]
    ELSE IF rec.block_expires_at # NoExpiry /\ t > rec.block_expires_at
         THEN [result |-> FALSE, rec |-> [rec EXCEPT !.is_active = FALSE]]
    ELSE [result |-> TRUE, rec |-> rec]

\* RedisRateLimiter._is_ip_blocked: filter(ip_address, is_active=True).first()
IsIpBlocked(rec, t) ==
    IF rec.exists /\ rec.is_active THEN IsBlocked(rec, t)
    ELSE [result |-> FALSE, rec |-> rec]

\* IPBlockRule rows.  request_path_pattern is NULL, or a text that either
\* compiles as a regular expression (a literal here) or does not.
NullPattern == [null |-> TRUE, valid |-> TRUE, text |-> <<>>]
Literal(text) == [null |-> FALSE, valid |-> TRUE, text |-> text]
RuleLogin ==
    [name |-> "login-bruteforce", request_path_pattern |-> Literal(<<"auth", "login">>),
     max_attempts |-> 2, time_window |-> 300, block_duration |-> 3600,
     is_permanent_block |-> FALSE, is_active |-> TRUE]
\* The rule tables the administrator may have stored, in primary-key order.
RuleTableChoices == {<<RuleLogin>>}
RuleNames == {"login-bruteforce"}
\* the rule of the table a BlockedIP row refers to
RuleByName(ruleTable, name) ==
    ruleTable[CHOOSE i \in DOMAIN ruleTable : ruleTable[i].name = name]

\* RateLimitMiddleware._path_matches_pattern: re.search of a literal is
\* substring containment, and so is the fallback for a pattern that does
\* not compile
PathMatchesPattern(path, pattern) == Contains(path, pattern.text)

\* the row get_or_create inserts for _apply_block_rule: the defaults of the
\* call, and the model defaults for the rest (is_active is True)
BlockRuleDefaults(rule) ==
    [NoBlock EXCEPT !.exists = TRUE,
                    !.rule = rule.name,
                    !.reason = "Triggered rule: " \o rule.name,
                    !.is_permanent = rule.is_permanent_block,
                    !.attempt_count = 0,
                    !.is_active = TRUE]

\* _apply_block_rule activating only beyond the threshold (> for >=)
ApplyBlockRuleStrict(rec, rule, t) ==
    LET got == IF rec.exists THEN rec ELSE BlockRuleDefaults(rule)
        counted == [got EXCEPT !.attempt_count = @ + 1, !.last_attempt_at = t]
        expiring == IF ~counted.is_permanent /\ rule.block_duration # 0
                    THEN [counted EXCEPT !.block_expires_at = t + rule.block_duration]
                    ELSE counted
    IN  IF expiring.attempt_count > rule.max_attempts
        THEN [expiring EXCEPT !.is_active = TRUE]
        ELSE expiring

\* _apply_block_rule counting from 1 again once the rule's time_window has
\* passed since the last attempt
ApplyBlockRuleWindowReset(rec, rule, t) ==
    LET got == IF rec.exists THEN rec ELSE BlockRuleDefaults(rule)
        stale == got.last_attempt_at # NoExpiry /\ t - got.last_attempt_at > rule.time_window
        counted == [got EXCEPT !.attempt_count = IF stale THEN 1 ELSE @ + 1,
                               !.last_attempt_at = t]
        expiring == IF ~counted.is_permanent /\ rule.block_duration # 0
                    THEN [counted EXCEPT !.block_expires_at = t + rule.block_duration]
                    ELSE counted
    IN  IF expiring.attempt_count >= rule.max_attempts
        THEN [expiring EXCEPT !.is_active = TRUE]
        ELSE expiring

\* _apply_block_rule counting afresh on a row whose block has ended
ApplyBlockRuleRestart(rec, rule, t) ==
    LET got == IF rec.exists THEN rec ELSE BlockRuleDefaults(rule)
        counted == [got EXCEPT !.attempt_count = IF got.is_active THEN @ + 1 ELSE 1,
                               !.last_attempt_at = t]
        expiring == IF ~counted.is_permanent /\ rule.block_duration # 0
                    THEN [counted EXCEPT !.block_expires_at = t + rule.block_duration]
                    ELSE counted
    IN  IF expiring.attempt_count >= rule.max_attempts
        THEN [expiring EXCEPT !.is_active = TRUE]
        ELSE expiring
\* RateLimitMiddleware._apply_block_rule
ApplyBlockRule(rec, rule, t) ==
    LET got == IF rec.exists THEN rec ELSE BlockRuleDefaults(rule)
        counted == [got EXCEPT !.attempt_count = @ + 1, !.last_attempt_at = t]
        expiring == IF ~counted.is_permanent /\ rule.block_duration # 0
                    THEN [counted EXCEPT !.block_expires_at = t + rule.block_duration]
                    ELSE counted
    IN  IF expiring.attempt_count >= rule.max_attempts
        THEN [expiring EXCEPT !.is_active = TRUE]
        ELSE expiring

\* is the rule selected by _handle_suspicious_activity for this path
RuleApplies(rule, path) ==
    /\ rule.is_active
    /\ ~rule.request_path_pattern.null
    /\ PathMatchesPattern(path, rule.request_path_pattern)

\* RateLimitMiddleware._handle_suspicious_activity: every matching rule, in
\* table order, is applied to the row of the IP
RECURSIVE HandleSuspiciousActivity(_, _, _, _)
HandleSuspiciousActivity(rec, path, ruleTable, t) ==
    IF ruleTable = <<>> THEN rec
    ELSE LET rule == Head(ruleTable)
             next == IF RuleApplies(rule, path) THEN ApplyBlockRule(rec, rule, t) ELSE rec
         IN  HandleSuspiciousActivity(next, path, Tail(ruleTable), t)

\* api_views.block_ip_view
BlockIpView(rec, is_permanent, duration_hours, t) ==
    LET got == IF rec.exists
               THEN [rec EXCEPT !.reason = "Manually blocked by admin",
                                !.is_permanent = is_permanent,
                                !.blocked_by_admin = TRUE,
                                !.is_active = TRUE]
               ELSE [NoBlock EXCEPT !.exists = TRUE,
                                    !.reason = "Manually blocked by admin",
                                    !.is_permanent = is_permanent,
                                    !.blocked_by_admin = TRUE,
                                    !.is_active = TRUE,
                                    !.attempt_count = 0]
    IN  IF ~is_permanent
        THEN [got EXCEPT !.block_expires_at = t + duration_hours * 3600]
        ELSE got

\* api_views.unblock_ip_view on the row of the address: 404 and no count
\* without an active row; otherwise filter(...).update(is_active=False)
\* answers the number of rows updated, and clear_rate_limit(ip_address=ip)
\* is called without an action
NoCount == 0 - 1
\* unblock_ip_view answering 200 with a count of 0 when no row is active
UnblockIpViewCountZero(rec) ==
    IF rec.exists /\ rec.is_active
    THEN [status |-> 200, unblocked_count |-> 1, cleared |-> TRUE,
          rec |-> [rec EXCEPT !.is_active = FALSE]]
    ELSE [status |-> 200, unblocked_count |-> 0, cleared |-> FALSE, rec |-> rec]
UnblockIpView(rec) ==
    IF rec.exists /\ rec.is_active
    THEN [status |-> 200, unblocked_count |-> 1, cleared |-> TRUE,
          rec |-> [rec EXCEPT !.is_active = FALSE]]
    ELSE [status |-> 404, unblocked_count |-> NoCount, cleared |-> FALSE, rec |-> rec]

(***************************************************************************)
(* RedisRateLimiter.check_rate_limit and record_request.                   *)
(***************************************************************************)
NoFail == [s \in Scopes |-> [w \in Windows |-> "ok"]]
\* Failures injected into one check: none, or one count call failing at its
\* first or second backend call, or every count call failing.
FailChoices ==
    {NoFail, [s \in Scopes |-> [w \in Windows |-> "first"]]}
    \cup {[NoFail EXCEPT ![s][w] = m] :
             s \in Scopes, w \in Windows, m \in {"first", "second"}}

NoVerdict ==
    [checked |-> FALSE, is_limited |-> FALSE, ip_limited |-> FALSE,
     user_limited |-> FALSE, ip_blocked |-> FALSE,
     ip_info |-> EmptyInfo, user_info |-> EmptyInfo, retry_after |-> 0,
     fail |-> NoFail]

\* the database after a scope check wrote back the entries of its keys
WriteBack(db, action, scope, id, entries) ==
    [db EXCEPT ![RateLimitKey(action, scope, id, "minute")] = entries["minute"],
               ![RateLimitKey(action, scope, id, "hour")] = entries["hour"],
               ![RateLimitKey(action, scope, id, "day")] = entries["day"]]

\* check_rate_limit: verdict, the counter databases after the evictions,
\* and the BlockedIP row of the address after is_blocked
CheckRateLimit(rc, rdb, cdb, cfg, rec, ip, action, user, t, fail) ==
    LET ipc == CheckScopeRateLimit(rc, rdb, cdb, cfg, "ip", ip, action, t, fail["ip"])
        rdb1 == IF rc THEN WriteBack(rdb, action, "ip", ip, ipc.entries) ELSE rdb
        cdb1 == IF rc THEN cdb ELSE WriteBack(cdb, action, "ip", ip, ipc.entries)
        hasUser == user # NoUser
        uc == CheckScopeRateLimit(rc, rdb1, cdb1, cfg, "user", user, action, t, fail["user"])
        rdb2 == IF hasUser /\ rc THEN WriteBack(rdb1, action, "user", user, uc.entries) ELSE rdb1
        cdb2 == IF hasUser /\ ~rc THEN WriteBack(cdb1, action, "user", user, uc.entries) ELSE cdb1
        user_limited == hasUser /\ uc.is_limited
        user_info == IF hasUser THEN uc.info ELSE EmptyInfo
        blk == IsIpBlocked(rec, t)
    IN  [verdict |->
            [checked |-> TRUE,
             is_limited |-> ipc.is_limited \/ user_limited \/ blk.result,
             ip_limited |-> ipc.is_limited,
             user_limited |-> user_limited,
             ip_blocked |-> blk.result,
             ip_info |-> ipc.info,
             user_info |-> user_info,
             retry_after |-> CalculateRetryAfter(ipc.info, user_info),
             fail |-> fail],
         rdb |-> rdb2, cdb |-> cdb2, rec |-> blk.rec]

\* _record_ip_request / _record_user_request: one event in each of the three
\* windows of the scope
RecordScopeRequest(rc, rdb, cdb, action, scope, id, t, success) ==
    LET key(w) == RateLimitKey(action, scope, id, w)
    IN  [rdb |-> IF rc
                 THEN WriteBack(rdb, action, scope, id,
                          [w \in Windows |-> RecordRequestRedis(rdb[key(w)], t, success, w)])
                 ELSE rdb,
         cdb |-> IF rc THEN cdb
                 ELSE WriteBack(cdb, action, scope, id,
                          [w \in Windows |-> RecordRequestCache(cdb[key(w)], t, success, w)])]

\* record_request
RecordRequest(rc, rdb, cdb, ip, action, user, t, success) ==
    LET a == RecordScopeRequest(rc, rdb, cdb, action, "ip", ip, t, success)
    IN  IF user # NoUser
        THEN RecordScopeRequest(rc, a.rdb, a.cdb, action, "user", user, t, success)
        ELSE a

\* get_rate_limit_status: {} without a Redis client
GetRateLimitStatus(rc, rdb, cdb, cfg, ip, action, user, t) ==
    IF ~rc THEN [empty |-> TRUE, ip_status |-> EmptyInfo, user_status |-> EmptyInfo,
                 rdb |-> rdb, cdb |-> cdb]
    ELSE LET ipc == CheckScopeRateLimit(rc, rdb, cdb, cfg, "ip", ip, action, t, NoFail["ip"])
             rdb1 == WriteBack(rdb, action, "ip", ip, ipc.entries)
             uc == CheckScopeRateLimit(rc, rdb1, cdb, cfg, "user", user, action, t, NoFail["user"])
         IN  [empty |-> FALSE,
              ip_status |-> ipc.info,
              user_status |-> IF user # NoUser THEN uc.info ELSE EmptyInfo,
              rdb |-> IF user # NoUser
                      THEN WriteBack(rdb1, action, "user", user, uc.entries) ELSE rdb1,
              cdb |-> cdb]

\* clear_rate_limit(ip_address, user_identifier, action): the Redis database
\* after the call; NoUser / "" stand for an argument left out
ClearRateLimit(rc, rdb, ip, user, action) ==
    IF ~rc THEN rdb
    ELSE [k \in Keys |->
            IF \/ (ip # "" /\ action # "" /\ k[1] = action /\ k[2] = "ip" /\ k[3] = ip)
               \/ (user # NoUser /\ action # "" /\ k[1] = action /\ k[2] = "user" /\ k[3] = user)
            THEN RedisAbsent ELSE rdb[k]]

(***************************************************************************)
(* RateLimitMiddleware helpers.                                            *)
(***************************************************************************)
ExcludedPaths == {<<"admin", "jsi18n">>, <<"favicon.ico">>, <<"static">>, <<"media">>, <<"health">>}
MonitoredPaths == {<<"auth">>, <<"admin">>}

IsExcludedPath(path) == \E p \in ExcludedPaths : StartsWith(path, p)
IsMonitoredPath(path) == \E p \in MonitoredPaths : StartsWith(path, p)

GetActionType(path) ==
    IF Contains(path, <<"auth", "login">>) \/ Contains(path, <<"auth", "google">>) THEN "login"
    ELSE IF Contains(path, <<"auth", "register">>) THEN "register"
    ELSE IF Contains(path, <<"auth", "forgot-password">>)
            \/ Contains(path, <<"auth", "reset-password">>) THEN "password_reset"
    ELSE IF Contains(path, <<"auth", "2fa">>) THEN "2fa"
    ELSE IF Contains(path, <<"auth">>) THEN "auth"
    ELSE IF Contains(path, <<"admin">>) THEN "admin"
    ELSE "api"

\* success = 200 <= response.status_code < 400
IsSuccess(status) == 200 <= status /\ status < 400

(***************************************************************************)
(* State.                                                                  *)
(***************************************************************************)
VARIABLES
    now,          \* the clock
    redis_client, \* TRUE: Redis reachable at start-up; FALSE: cache fallback
    config,       \* the active RateLimitConfig held by the limiter
    rules,        \* the IPBlockRule table
    redis_db,     \* Redis: key -> sorted set and expiry
    cache_db,     \* Django cache: key -> timestamp list and expiry
    blocks,       \* BlockedIP table: ip -> row
    visitor_logs, \* number of VisitorLog rows
    req,          \* the request an interceptor handled last
    matched,      \* ip -> rule name -> failed responses that matched the rule
    history,      \* bag of the events recorded by direct record_request calls
    obs,          \* the last direct call and what each backend returned
    blocked_ips,  \* BlockedIP table as rows, for the direct calls of the registry
    procs,        \* the calls in progress in concurrent request threads
    tf_attempts,  \* TwoFactorAttempt table: bag of logged attempts
    rate_limit_configs, \* RateLimitConfig table: set of rows
    nreq, nticks, nadmin, ncalls

vars == <<now, redis_client, config, rules, redis_db, cache_db, blocks,
          visitor_logs, req, matched, history, obs, blocked_ips, procs, tf_attempts,
          rate_limit_configs, nreq, nticks, nadmin, ncalls>>

\* what the direct calls of the limiter own
callVars == <<history, obs, ncalls>>
\* what the interceptors and the administrative views own
webVars == <<redis_client, rules, blocks, req, matched, nreq, nadmin>>
\* what only the direct calls of the block registry touch
unitVars == <<blocked_ips, procs, tf_attempts>>
tfVars == <<tf_attempts>>
\* the RateLimitConfig table, written by the administrator
cfgVars == <<rate_limit_configs>>

\* two request threads of one server process
Procs == {1, 2}
IdleProc == [pc |-> "idle"]
NoHeader == 0 - 1
NoObs == [op |-> "none"]
IdleReq ==
    [via |-> "none", ip |-> "", path |-> <<>>, status |-> 0, rejected |-> FALSE,
     verdict |-> NoVerdict, retry_after_header |-> NoHeader, calls |-> <<>>,
     escalated |-> FALSE]

Init ==
    /\ now = T0
    /\ redis_client \in BOOLEAN
    /\ config \in ConfigChoices
    /\ rules \in RuleTableChoices
    /\ redis_db = [k \in Keys |-> RedisAbsent]
    /\ cache_db = [k \in Keys |-> CacheAbsent]
    /\ blocks = [ip \in IPs |-> NoBlock]
    /\ visitor_logs = 0
    /\ req = IdleReq
    /\ matched = [ip \in IPs |-> [n \in RuleNames |-> 0]]
    /\ history = EmptyBag
    /\ obs = NoObs
    /\ blocked_ips = {}
    /\ procs = [p \in Procs |-> IdleProc]
    /\ tf_attempts = EmptyBag
    /\ rate_limit_configs = {[name |-> "default", is_active |-> TRUE, fields |-> config]}
    /\ nreq = 0 /\ nticks = 0 /\ nadmin = 0 /\ ncalls = 0

\* time passes
Tick ==
    /\ nticks < MaxTicks
    /\ \E d \in TickSteps : now' = now + d
    /\ nticks' = nticks + 1
    /\ UNCHANGED <<redis_client, config, rules, redis_db, cache_db, blocks,
                   visitor_logs, req, matched, nreq, nadmin, callVars, unitVars, cfgVars>>

(***************************************************************************)
(* RateLimitMiddleware.  MiddlewareMixin.__call__ runs process_request,    *)
(* then the view unless process_request returned a response, then          *)
(* process_response on whichever response there is.                        *)
(***************************************************************************)
\* process_request: the verdict, whether it answered 429 itself, and the
\* state it leaves
ProcessRequest(rc, rdb, cdb, cfg, rec, ip, path, user, t, fail) ==
    IF IsExcludedPath(path)
    THEN [responded |-> FALSE, verdict |-> NoVerdict, rdb |-> rdb, cdb |-> cdb,
          rec |-> rec, calls |-> <<>>]
    ELSE LET c == CheckRateLimit(rc, rdb, cdb, cfg, rec, ip, GetActionType(path),
                                 user, t, fail)
         IN  [responded |-> c.verdict.is_limited, verdict |-> c.verdict,
              rdb |-> c.rdb, cdb |-> c.cdb, rec |-> c.rec, calls |-> <<"check">>]

\* _handle_rate_limit_exceeded and the decorator's 429: the Retry-After header
RetryAfterHeader(verdict) == verdict.retry_after

\* process_response running the rule matcher whatever the status
ProcessResponseAnyStatus(rc, rdb, cdb, rec, ruleTable, ip, path, user, status, t) ==
    IF IsExcludedPath(path)
    THEN [rdb |-> rdb, cdb |-> cdb, rec |-> rec, calls |-> <<>>, escalated |-> FALSE]
    ELSE LET success == IsSuccess(status)
             r == RecordRequest(rc, rdb, cdb, ip, GetActionType(path), user, t, success)
             suspicious == IsMonitoredPath(path)
         IN  [rdb |-> r.rdb, cdb |-> r.cdb,
              rec |-> IF suspicious
                      THEN HandleSuspiciousActivity(rec, path, ruleTable, t) ELSE rec,
              calls |-> <<"record">>,
              escalated |-> suspicious /\ \E i \in DOMAIN ruleTable :
                                             RuleApplies(ruleTable[i], path)]
\* process_response: the state it leaves and the calls it made
ProcessResponse(rc, rdb, cdb, rec, ruleTable, ip, path, user, status, t) ==
    IF IsExcludedPath(path)
    THEN [rdb |-> rdb, cdb |-> cdb, rec |-> rec, calls |-> <<>>, escalated |-> FALSE]
    ELSE LET success == IsSuccess(status)
             r == RecordRequest(rc, rdb, cdb, ip, GetActionType(path), user, t, success)
             suspicious == ~success /\ IsMonitoredPath(path)
         IN  [rdb |-> r.rdb, cdb |-> r.cdb,
              rec |-> IF suspicious
                      THEN HandleSuspiciousActivity(rec, path, ruleTable, t) ELSE rec,
              calls |-> <<"record">>,
              escalated |-> suspicious /\ \E i \in DOMAIN ruleTable :
                                             RuleApplies(ruleTable[i], path)]

\* One request through the middleware; status is the answer of the view,
\* used when the view is reached.
MiddlewareCall(ip, path, user, status, fail) ==
    /\ nreq < MaxRequests
    /\ nreq' = nreq + 1
    /\ \E a \in {ProcessRequest(redis_client, redis_db, cache_db, config, blocks[ip],
                                  ip, path, user, now, fail)} :
       \E answer \in {IF a.responded THEN 429 ELSE status} :
       \E b \in {ProcessResponse(redis_client, a.rdb, a.cdb, a.rec, rules,
                                  ip, path, user, answer, now)} :
           /\ redis_db' = b.rdb
           /\ cache_db' = b.cdb
           /\ blocks' = [blocks EXCEPT ![ip] = b.rec]
           /\ visitor_logs' = visitor_logs + Len(a.calls)
           /\ req' = [via |-> "middleware", ip |-> ip, path |-> path,
                      status |-> answer, rejected |-> a.responded,
                      verdict |-> a.verdict,
                      retry_after_header |->
                          IF a.responded THEN RetryAfterHeader(a.verdict)
                          ELSE IF a.verdict.checked /\ a.verdict.retry_after # 0
                               THEN a.verdict.retry_after
                          ELSE NoHeader,
                      calls |-> a.calls \o b.calls,
                      escalated |-> b.escalated]
           /\ matched' = IF b.escalated
                         THEN [matched EXCEPT ![ip] =
                                 [n \in RuleNames |->
                                    IF \E i \in DOMAIN rules :
                                          rules[i].name = n /\ RuleApplies(rules[i], path)
                                    THEN @[n] + 1 ELSE @[n]]]
                         ELSE matched
    /\ UNCHANGED <<now, redis_client, config, rules, nticks, nadmin, callVars, unitVars, cfgVars>>

(***************************************************************************)
(* The rate_limit decorator around a view (decorators.rate_limit.wrapper). *)
(* request.rate_limit_checked is set by the wrapper only, so a request     *)
(* entering it has not been marked.                                        *)
(***************************************************************************)
\* <<per_user, per_ip, fail_on_limit>> of the decorated views
DecoratorFlags == {<<TRUE, TRUE, TRUE>>, <<TRUE, TRUE, FALSE>>, <<FALSE, FALSE, TRUE>>}

DecoratedView(ip, action, user, per_user, per_ip, fail_on_limit, status, fail) ==
    /\ nreq < MaxRequests
    /\ nreq' = nreq + 1
    /\ \E user_identifier \in {IF per_user THEN user ELSE NoUser} :
       \E checks \in {per_ip \/ per_user} :
       \E c \in {CheckRateLimit(redis_client, redis_db, cache_db, config,
                                blocks[ip], ip, action, user_identifier, now, fail)} :
       \E reject \in {checks /\ c.verdict.is_limited /\ fail_on_limit} :
       \E rdb1 \in {IF checks THEN c.rdb ELSE redis_db} :
       \E cdb1 \in {IF checks THEN c.cdb ELSE cache_db} :
       \E r \in {RecordRequest(redis_client, rdb1, cdb1, ip, action, user_identifier,
                               now, IsSuccess(status))} :
           /\ redis_db' = IF reject THEN rdb1 ELSE r.rdb
           /\ cache_db' = IF reject THEN cdb1 ELSE r.cdb
           /\ blocks' = IF checks THEN [blocks EXCEPT ![ip] = c.rec] ELSE blocks
           /\ visitor_logs' = IF checks THEN visitor_logs + 1 ELSE visitor_logs
           /\ req' = [via |-> "decorator", ip |-> ip, path |-> <<>>,
                      status |-> IF reject THEN 429 ELSE status,
                      rejected |-> reject,
                      verdict |-> IF checks THEN c.verdict ELSE NoVerdict,
                      retry_after_header |->
                          IF reject THEN RetryAfterHeader(c.verdict) ELSE NoHeader,
                      calls |-> (IF checks THEN <<"check">> ELSE <<>>)
                                \o (IF reject THEN <<>> ELSE <<"record">>),
                      escalated |-> FALSE,
                      per_user |-> per_user, per_ip |-> per_ip]
    /\ UNCHANGED <<now, redis_client, config, rules, matched, nticks, nadmin, callVars, unitVars, cfgVars>>

(***************************************************************************)
(* Administrative views (api_views).                                       *)
(***************************************************************************)
DurationHours == {1}

BlockIp(ip, is_permanent, duration_hours) ==
    /\ nadmin < MaxAdminOps
    /\ nadmin' = nadmin + 1
    /\ blocks' = [blocks EXCEPT ![ip] = BlockIpView(@, is_permanent, duration_hours, now)]
    /\ UNCHANGED <<now, redis_client, config, rules, redis_db, cache_db,
                   visitor_logs, req, matched, nreq, nticks, callVars, unitVars, cfgVars>>

\* unblock_ip_view
UnblockIp(ip) ==
    /\ nadmin < MaxAdminOps
    /\ nadmin' = nadmin + 1
    /\ blocks' = [blocks EXCEPT ![ip] = UnblockIpView(@).rec]
    /\ redis_db' = IF UnblockIpView(blocks[ip]).cleared
                   THEN ClearRateLimit(redis_client, redis_db, ip, NoUser, "")
                   ELSE redis_db
    /\ UNCHANGED <<now, redis_client, config, rules, cache_db,
                   visitor_logs, req, matched, nreq, nticks, callVars, unitVars, cfgVars>>

Next ==
    \/ Tick
    \/ \E ip \in IPs, path \in Paths, user \in UserIds \cup {NoUser}, status \in Statuses :
          MiddlewareCall(ip, path, user, status, NoFail)
    \/ \E ip \in IPs, is_permanent \in BOOLEAN, duration_hours \in DurationHours :
          BlockIp(ip, is_permanent, duration_hours)
    \/ \E ip \in IPs : UnblockIp(ip)

Spec == Init /\ [][Next]_vars

(***************************************************************************)
(* Properties of the interceptor and of the block registry (Spec).         *)
(***************************************************************************)
Recorded(r) == \E i \in DOMAIN r.calls : r.calls[i] = "record"

\* C1 (as claimed): a request that check_rate_limit reported limited and the
\* interceptor answered with 429 has had no record_request call made for it.
C1_RejectedNeverRecorded == req.rejected => ~Recorded(req)

\* C4 (as claimed): a Block Record created by rule escalation is inert while
\* its attempt_count is below the rule's max_attempts: is_active is false and
\* the IP is not reported blocked.
C4_InertBelowThreshold ==
    \A ip \in IPs :
        LET rec == blocks[ip]
        IN  (/\ rec.exists
             /\ rec.rule # NoRule
             /\ ~rec.blocked_by_admin
             /\ rec.attempt_count < RuleByName(rules, rec.rule).max_attempts)
            => (~rec.is_active /\ ~IsIpBlocked(rec, now).result)

\* an active row whose block has not expired at time t
BlockInForce(rec, t) ==
    /\ rec.exists
    /\ rec.is_active
    /\ (rec.is_permanent \/ rec.block_expires_at = NoExpiry \/ t <= rec.block_expires_at)

\* every check made now from the address, whatever the action, the user and
\* the counters, reports ip_blocked and limited
DeniedByBlock(ip) ==
    \A action \in Actions, user \in UserIds \cup {NoUser} :
        \E v \in {CheckRateLimit(redis_client, redis_db, cache_db, config, blocks[ip],
                                 ip, action, user, now, NoFail).verdict} :
            v.ip_blocked /\ v.is_limited

\* C5: the failed response that brings the number of an IP's failed responses
\* matching an active rule to the rule's max_attempts or beyond leaves the
\* IP's Block Record active; and as long as a Block Record is active and not
\* expired, every check from the IP, for any action and whatever the counters
\* hold, reports ip_blocked = true and limited = true.
C5_ThresholdBlocks ==
    /\ [](\A ip \in IPs : BlockInForce(blocks[ip], now) => DeniedByBlock(ip))
    /\ [][\A ip \in IPs, i \in DOMAIN rules :
              (/\ matched'[ip][rules[i].name] > matched[ip][rules[i].name]
               /\ matched'[ip][rules[i].name] >= rules[i].max_attempts)
              => (blocks'[ip].exists /\ blocks'[ip].is_active)]_vars

\* C5 witness: a request checked after the threshold was reached is reported
\* blocked (the request itself is one more matching failed response).
C5_Witness ==
    \E ip \in IPs, i \in DOMAIN rules :
        /\ req.ip = ip
        /\ req.escalated
        /\ req.verdict.ip_blocked
        /\ req.verdict.is_limited
        /\ matched[ip][rules[i].name] > rules[i].max_attempts

WindowRetry(w) ==
    IF w = "minute" THEN 60 ELSE IF w = "hour" THEN 3600 ELSE IF w = "day" THEN 86400 ELSE 0

\* C7: the retry_after of a verdict is the larger of the delays (60, 3600,
\* 86400) of the windows reported tripped in the ip and user scopes, 0 when
\* no scope tripped; a 429 answer carries it as Retry-After, so a request
\* denied only because of an IP block carries Retry-After 0.
C7_RetryAfter ==
    req.verdict.checked =>
        LET v == req.verdict
        IN  /\ (v.ip_limited <=> v.ip_info.blocked_window # "none")
            /\ (v.user_limited <=> v.user_info.blocked_window # "none")
            /\ v.retry_after = Max2(WindowRetry(v.ip_info.blocked_window),
                                    WindowRetry(v.user_info.blocked_window))
            /\ (~v.ip_limited /\ ~v.user_limited => v.retry_after = 0)
            /\ (req.rejected => req.retry_after_header = v.retry_after)
            /\ (req.rejected /\ ~v.ip_limited /\ ~v.user_limited
                => v.ip_blocked /\ req.retry_after_header = 0)

\* C7 witness: both scopes tripped, the user scope on the longer window.
C7_Witness ==
    /\ req.rejected
    /\ req.verdict.ip_info.blocked_window = "minute"
    /\ req.verdict.user_info.blocked_window = "hour"
    /\ req.retry_after_header = 3600

\* C10 (as claimed): for every Block Record with is_permanent = true,
\* is_blocked returns true at every time.
C10_PermanentAlwaysBlocked ==
    \A ip \in IPs :
        (blocks[ip].exists /\ blocks[ip].is_permanent)
        => IsBlocked(blocks[ip], now).result

\* C10 (amended): for every active Block Record with is_permanent = true,
\* is_blocked returns true at every time, whatever block_expires_at is, and
\* leaves the record as it is.
C10_ActivePermanentAlwaysBlocked ==
    \A ip \in IPs :
        (blocks[ip].exists /\ blocks[ip].is_permanent /\ blocks[ip].is_active)
        => (/\ IsBlocked(blocks[ip], now).result
            /\ IsBlocked(blocks[ip], now).rec = blocks[ip])

\* C10 witness: a check found a permanent record blocked after its
\* block_expires_at had passed.
C10_Witness ==
    \E ip \in IPs :
        /\ req.ip = ip
        /\ req.verdict.ip_blocked
        /\ blocks[ip].is_permanent
        /\ blocks[ip].is_active
        /\ blocks[ip].block_expires_at # NoExpiry
        /\ now > blocks[ip].block_expires_at

(***************************************************************************)
(* The limiter called directly, on both backends side by side: every call  *)
(* is issued at the same time to a limiter built on Redis (redis_db) and   *)
(* to one built on the cache fallback (cache_db).                          *)
(***************************************************************************)
StoreTickSteps == {1, 60, 3600, 86400}
\* active configurations of the direct-call specifications
StoreConfigChoices == {MakeConfig(2, 3, 3, 1, 2, 2)}
\* failures injected into the checks of the direct-call specifications
StoreFailChoices ==
    {NoFail,
     [s \in Scopes |-> [w \in Windows |-> "first"]],
     [NoFail EXCEPT !["ip"]["minute"] = "second"],
     [NoFail EXCEPT !["user"]["hour"] = "first"]}

StoreInit ==
    /\ now = T0
    /\ redis_client = TRUE
    /\ config \in StoreConfigChoices
    /\ rules \in RuleTableChoices
    /\ redis_db = [k \in Keys |-> RedisAbsent]
    /\ cache_db = [k \in Keys |-> CacheAbsent]
    /\ blocks = [ip \in IPs |-> NoBlock]
    /\ visitor_logs = 0
    /\ req = IdleReq
    /\ matched = [ip \in IPs |-> [n \in RuleNames |-> 0]]
    /\ history = EmptyBag
    /\ obs = NoObs
    /\ blocked_ips = {}
    /\ procs = [p \in Procs |-> IdleProc]
    /\ tf_attempts = EmptyBag
    /\ rate_limit_configs = {[name |-> "default", is_active |-> TRUE, fields |-> config]}
    /\ nreq = 0 /\ nticks = 0 /\ nadmin = 0 /\ ncalls = 0

StoreTick ==
    /\ nticks < MaxTicks
    /\ \E d \in StoreTickSteps : now' = now + d
    /\ nticks' = nticks + 1
    /\ UNCHANGED <<config, redis_db, cache_db, visitor_logs, callVars, webVars, unitVars, cfgVars>>

\* rate_limiter.record_request(request, action, user_identifier, success)
CallRecord(ip, action, user, success) ==
    /\ ncalls < MaxCalls
    /\ ncalls' = ncalls + 1
    /\ redis_db' = RecordRequest(TRUE, redis_db, cache_db, ip, action, user, now, success).rdb
    /\ cache_db' = RecordRequest(FALSE, redis_db, cache_db, ip, action, user, now, success).cdb
    /\ history' = history (+) SetToBag({[ip |-> ip, action |-> action, user |-> user, ts |-> now]})
    /\ obs' = [op |-> "record"]
    /\ UNCHANGED <<now, config, visitor_logs, nticks, webVars, unitVars, cfgVars>>

\* rate_limiter.check_rate_limit(request, action, user_identifier)
CallCheck(ip, action, user, fail) ==
    /\ ncalls < MaxCalls
    /\ ncalls' = ncalls + 1
    /\ \E r \in {CheckRateLimit(TRUE, redis_db, cache_db, config, blocks[ip],
                                ip, action, user, now, fail)} :
       \E c \in {CheckRateLimit(FALSE, redis_db, cache_db, config, blocks[ip],
                                ip, action, user, now, fail)} :
           /\ redis_db' = r.rdb
           /\ cache_db' = c.cdb
           /\ obs' = [op |-> "check", ip |-> ip, action |-> action, user |-> user,
                      redis |-> r.verdict, cache |-> c.verdict]
    /\ visitor_logs' = visitor_logs + 1
    /\ UNCHANGED <<now, config, history, nticks, webVars, unitVars, cfgVars>>

\* rate_limiter.get_rate_limit_status(request, action, user_identifier)
CallStatus(ip, action, user) ==
    /\ ncalls < MaxCalls
    /\ ncalls' = ncalls + 1
    /\ \E r \in {GetRateLimitStatus(TRUE, redis_db, cache_db, config, ip, action, user, now)} :
       \E c \in {GetRateLimitStatus(FALSE, redis_db, cache_db, config, ip, action, user, now)} :
           /\ redis_db' = r.rdb
           /\ cache_db' = c.cdb
           /\ obs' = [op |-> "status", ip |-> ip, action |-> action, user |-> user,
                      redis |-> [empty |-> r.empty, ip_status |-> r.ip_status,
                                 user_status |-> r.user_status],
                      cache |-> [empty |-> c.empty, ip_status |-> c.ip_status,
                                 user_status |-> c.user_status]]
    /\ UNCHANGED <<now, config, visitor_logs, history, nticks, webVars, unitVars, cfgVars>>

\* rate_limiter.clear_rate_limit(ip_address, user_identifier, action); the
\* cache fallback keeps its lists
CallClear(ip, user, action) ==
    /\ ncalls < MaxCalls
    /\ ncalls' = ncalls + 1
    /\ redis_db' = ClearRateLimit(TRUE, redis_db, ip, user, action)
    /\ obs' = [op |-> "clear"]
    /\ UNCHANGED <<now, config, cache_db, visitor_logs, history, nticks, webVars, unitVars, cfgVars>>

StoreNext ==
    \/ StoreTick
    \/ \E ip \in IPs, action \in DecoratorActions, user \in UserIds \cup {NoUser},
          success \in BOOLEAN : CallRecord(ip, action, user, success)
    \/ \E ip \in IPs, action \in DecoratorActions, user \in UserIds \cup {NoUser},
          fail \in StoreFailChoices : CallCheck(ip, action, user, fail)

StoreSpec == StoreInit /\ [][StoreNext]_vars

EquivNext ==
    \/ StoreNext
    \/ \E ip \in IPs, action \in DecoratorActions, user \in UserIds \cup {NoUser} :
          CallStatus(ip, action, user)
    \/ \E ip \in IPs \cup {""}, user \in UserIds \cup {NoUser}, action \in DecoratorActions :
          CallClear(ip, user, action)

EquivSpec == StoreInit /\ [][EquivNext]_vars

(***************************************************************************)
(* Properties of the counter store and of the window checks.               *)
(***************************************************************************)
Backends == {"redis", "cache"}
\* the events recorded so far under the key of (scope, id, action) whose
\* timestamp is strictly greater than now - W
RecordedEvents(scope, id, action, w) ==
    {e \in BagToSet(history) :
        /\ e.action = action
        /\ IF scope = "ip" THEN e.ip = id ELSE e.user = id
        /\ e.ts > now - WindowSeconds(w)}
RecordedCount(scope, id, action, w) ==
    LET evs == RecordedEvents(scope, id, action, w)
    IN  IF evs = {} THEN 0 ELSE BagCardinality([e \in evs |-> history[e]])
ScopeId(scope) == IF scope = "ip" THEN obs.ip ELSE obs.user
ScopeInfo(b, scope) == IF scope = "ip" THEN obs[b].ip_info ELSE obs[b].user_info
CleanCheck == obs.op = "check" /\ obs.redis.fail = NoFail
TrippedWindows(info) == {w \in Windows : info.count[w] >= info.limit[w]}
WindowRank(w) == CASE w = "minute" -> 1 [] w = "hour" -> 2 [] OTHER -> 3

\* C2: after L events recorded for one (ip, action) pair within the last 60
\* seconds, L the per-minute IP limit, a check of that pair answers
\* ip_limited; when the minute window alone reached its limit (and the user
\* scope did not trip) the reported window is 'minute' and retry_after is 60.
C2_LimitTripsAfterLEvents ==
    CleanCheck =>
        \A b \in Backends :
            RecordedCount("ip", obs.ip, obs.action, "minute")
                    >= LimitFor(config, obs.action, "ip", "minute") =>
                /\ obs[b].ip_limited
                /\ ( /\ RecordedCount("ip", obs.ip, obs.action, "hour")
                            < LimitFor(config, obs.action, "ip", "hour")
                     /\ RecordedCount("ip", obs.ip, obs.action, "day")
                            < LimitFor(config, obs.action, "ip", "day")
                     /\ ~obs[b].user_limited )
                   => /\ obs[b].ip_info.blocked_window = "minute"
                      /\ obs[b].retry_after = 60

\* C3: the count a check reports for a key and a window of W seconds is the
\* number of events recorded under the key with a timestamp strictly greater
\* than now - W, on the Redis backend and on the cache fallback.
C3_CountIsEventsInWindow ==
    CleanCheck =>
        \A b \in Backends, scope \in Scopes, w \in Windows :
            ~ScopeInfo(b, scope).empty =>
                ScopeInfo(b, scope).count[w]
                    = RecordedCount(scope, ScopeId(scope), obs.action, w)

\* C6 (as stated): when several windows of a scope are at or over their
\* limit, the reported tripped window is the first of them in the order
\* minute, hour, day.
C6_FirstTrippedWindowReported ==
    obs.op = "check" =>
        \A b \in Backends, scope \in Scopes :
            LET info == ScopeInfo(b, scope)
            IN  (~info.empty /\ TrippedWindows(info) # {}) =>
                    /\ info.blocked_window \in TrippedWindows(info)
                    /\ \A w \in TrippedWindows(info) :
                           WindowRank(info.blocked_window) <= WindowRank(w)

\* C6 (amended): when several windows of a scope are at or over their
\* limit, the reported tripped window is the last of them in the order
\* minute, hour, day; no window is reported when none is tripped.
C6_LastTrippedWindowReported ==
    obs.op = "check" =>
        \A b \in Backends, scope \in Scopes :
            LET info == ScopeInfo(b, scope)
            IN  ~info.empty =>
                    IF TrippedWindows(info) = {}
                    THEN info.blocked_window = "none"
                    ELSE /\ info.blocked_window \in TrippedWindows(info)
                         /\ \A w \in TrippedWindows(info) :
                                WindowRank(w) <= WindowRank(info.blocked_window)

\* a check found the minute window and a longer window of one scope tripped
C6_Witness ==
    /\ obs.op = "check"
    /\ \E b \in Backends, scope \in Scopes :
           /\ ~ScopeInfo(b, scope).empty
           /\ "minute" \in TrippedWindows(ScopeInfo(b, scope))
           /\ ScopeInfo(b, scope).blocked_window \in {"hour", "day"}

\* the count call of (scope, w) failed on backend b during the last check
CountFailed(b, scope, w) ==
    IF b = "redis" THEN obs[b].fail[scope][w] # "ok"
                   ELSE obs[b].fail[scope][w] = "first"
ScopeLimited(b, scope) ==
    IF scope = "ip" THEN obs[b].ip_limited ELSE obs[b].user_limited

\* C8: a count whose backend call fails is reported as 0 and its window as
\* not tripped: the check goes on, and a scope is limited only by windows
\* whose count was read.
C8_FailOpen ==
    obs.op = "check" =>
        \A b \in Backends, scope \in Scopes :
            LET info == ScopeInfo(b, scope)
            IN  ~info.empty =>
                    /\ \A w \in Windows :
                           CountFailed(b, scope, w) =>
                               /\ info.count[w] = 0
                               /\ info.remaining[w] = info.limit[w]
                               /\ info.blocked_window # w
                    /\ ScopeLimited(b, scope) <=>
                           \E w \in Windows :
                               /\ ~CountFailed(b, scope, w)
                               /\ info.count[w] >= info.limit[w]
                    /\ (\A w \in Windows : CountFailed(b, scope, w)) =>
                           ~ScopeLimited(b, scope)

\* every count call of a check failed while the address was over its
\* per-minute limit, and the check let the request through
C8_Witness ==
    /\ obs.op = "check"
    /\ \A scope \in Scopes, w \in Windows : CountFailed("redis", scope, w)
    /\ RecordedCount("ip", obs.ip, obs.action, "minute")
           >= LimitFor(config, obs.action, "ip", "minute")
    /\ Cardinality(redis_db[RateLimitKey(obs.action, "ip", obs.ip, "minute")].members)
           >= LimitFor(config, obs.action, "ip", "minute")
    /\ ~obs.redis.is_limited /\ ~obs.cache.is_limited
    /\ obs.redis.ip_info.count["minute"] = 0

\* C9: for the same sequence of record, check, status and clear calls the
\* limiter on Redis and the limiter on the cache fallback return the same
\* counts, verdicts and status.
C9_BackendsEquivalent ==
    (obs.op = "status" \/ CleanCheck) => obs.redis = obs.cache

(***************************************************************************)
(* The block registry called directly: the BlockedIP table as a set of     *)
(* rows, and the calls that read and write it.                             *)
(***************************************************************************)
RegIPs == {"10.0.0.1", "10.0.0.2"}
RowsOf(table, ip) == {r \in table : r.ip_address = ip}
\* BlockedIP.objects.filter(ip_address=ip).first(): the fields of the row
\* with the lowest primary key, NoBlock when there is none
RowOf(table, ip) ==
    IF RowsOf(table, ip) = {} THEN NoBlock
    ELSE (CHOOSE r \in RowsOf(table, ip) :
              \A q \in RowsOf(table, ip) : r.id <= q.id).rec
\* objects.create(...) where the code calls get_or_create
PutRowCreate(table, ip, rec) ==
    table \cup {[id |-> Cardinality(table) + 1, ip_address |-> ip, rec |-> rec]}
\* get_or_create(ip_address=ip, ...) followed by save(): the row of the
\* address is inserted when the table has none and updated in place otherwise
PutRow(table, ip, rec) ==
    IF RowsOf(table, ip) = {}
    THEN table \cup {[id |-> Cardinality(table) + 1, ip_address |-> ip, rec |-> rec]}
    ELSE LET got == CHOOSE r \in RowsOf(table, ip) :
                        \A q \in RowsOf(table, ip) : r.id <= q.id
         IN  {IF r.id = got.id THEN [r EXCEPT !.rec = rec] ELSE r : r \in table}

\* the call before the last one, as far as the next observation keeps it
PrevObs ==
    IF obs.op \in {"is_blocked", "escalate", "block", "unblock"}
    THEN [op |-> obs.op, ip |-> obs.ip, at |-> obs.at, before |-> obs.before,
          result |-> obs.result]
    ELSE [op |-> "none", ip |-> "", at |-> 0, before |-> NoBlock, result |-> FALSE]
RegObs(op, ip, before, result) ==
    [op |-> op, ip |-> ip, at |-> now, before |-> before, result |-> result,
     prev |-> PrevObs]

\* rate_limiter._is_ip_blocked(ip)
RegIsBlocked(ip) ==
    /\ ncalls < MaxCalls
    /\ ncalls' = ncalls + 1
    /\ \E before \in {RowOf(blocked_ips, ip)} :
       \E b \in {IsIpBlocked(before, now)} :
           /\ blocked_ips' = IF b.rec # before THEN PutRow(blocked_ips, ip, b.rec)
                                               ELSE blocked_ips
           /\ obs' = RegObs("is_blocked", ip, before, b.result)
    /\ UNCHANGED <<now, config, redis_db, cache_db, visitor_logs, history, nticks, webVars, procs, tfVars, cfgVars>>

\* middleware._handle_suspicious_activity for a failed response to path
RegEscalate(ip, path) ==
    /\ ncalls < MaxCalls
    /\ ncalls' = ncalls + 1
    /\ \E before \in {RowOf(blocked_ips, ip)} :
       \E after \in {HandleSuspiciousActivity(before, path, rules, now)} :
           /\ blocked_ips' = IF after.exists THEN PutRow(blocked_ips, ip, after)
                                             ELSE blocked_ips
           /\ obs' = RegObs("escalate", ip, before, after.exists)
    /\ UNCHANGED <<now, config, redis_db, cache_db, visitor_logs, history, nticks, webVars, procs, tfVars, cfgVars>>

\* api_views.block_ip_view
RegBlock(ip, is_permanent, duration_hours) ==
    /\ ncalls < MaxCalls
    /\ ncalls' = ncalls + 1
    /\ \E before \in {RowOf(blocked_ips, ip)} :
           /\ blocked_ips' = PutRow(blocked_ips, ip,
                                    BlockIpView(before, is_permanent, duration_hours, now))
           /\ obs' = RegObs("block", ip, before, is_permanent)
    /\ UNCHANGED <<now, config, redis_db, cache_db, visitor_logs, history, nticks, webVars, procs, tfVars, cfgVars>>

\* api_views.unblock_ip_view
RegUnblock(ip) ==
    /\ ncalls < MaxCalls
    /\ ncalls' = ncalls + 1
    /\ \E before \in {RowOf(blocked_ips, ip)} :
       \E u \in {UnblockIpView(before)} :
           /\ blocked_ips' = IF u.status = 200 THEN PutRow(blocked_ips, ip, u.rec)
                                               ELSE blocked_ips
           /\ redis_db' = IF u.cleared
                          THEN ClearRateLimit(redis_client, redis_db, ip, NoUser, "")
                          ELSE redis_db
           /\ obs' = RegObs("unblock", ip, before,
                            [status |-> u.status, unblocked_count |-> u.unblocked_count])
    /\ UNCHANGED <<now, config, cache_db, visitor_logs, history, nticks, webVars, procs, tfVars, cfgVars>>

RegistryNext ==
    \/ StoreTick
    \/ \E ip \in RegIPs : RegIsBlocked(ip)
    \/ \E ip \in RegIPs, path \in Paths : RegEscalate(ip, path)
    \/ \E ip \in RegIPs, is_permanent \in BOOLEAN, duration_hours \in DurationHours :
          RegBlock(ip, is_permanent, duration_hours)
    \/ \E ip \in RegIPs : RegUnblock(ip)

RegistrySpec == StoreInit /\ [][RegistryNext]_vars

ExpiredAt(rec, t) ==
    /\ rec.exists
    /\ ~rec.is_permanent
    /\ rec.block_expires_at # NoExpiry
    /\ t > rec.block_expires_at

\* C11: for an active non-permanent Block Record whose expiry is in the
\* past, is_blocked answers false and saves the record as inactive; the
\* is_blocked call that follows it directly answers false and changes
\* nothing, and so does every is_blocked call on an inactive record.
C11_LazyExpiry ==
    obs.op = "is_blocked" =>
        LET cur == RowOf(blocked_ips, obs.ip)
        IN  /\ (obs.before.is_active /\ ExpiredAt(obs.before, obs.at)) =>
                   /\ ~obs.result
                   /\ cur = [obs.before EXCEPT !.is_active = FALSE]
            /\ ( /\ obs.prev.op = "is_blocked"
                 /\ obs.prev.ip = obs.ip
                 /\ obs.prev.before.is_active
                 /\ ExpiredAt(obs.prev.before, obs.prev.at) ) =>
                   /\ ~obs.result
                   /\ ~obs.before.is_active
                   /\ cur = obs.before
            /\ (obs.before.exists /\ ~obs.before.is_active) =>
                   (~obs.result /\ cur = obs.before)

\* is_blocked was called twice in a row on a record that had expired while
\* active: the second call found it inactive
C11_Witness ==
    /\ obs.op = "is_blocked"
    /\ obs.prev.op = "is_blocked"
    /\ obs.prev.ip = obs.ip
    /\ obs.prev.before.is_active
    /\ ExpiredAt(obs.prev.before, obs.prev.at)
    /\ ~obs.prev.result
    /\ ~obs.result
    /\ ~RowOf(blocked_ips, obs.ip).is_active

NoActiveRow(rec) == ~(rec.exists /\ rec.is_active)

C13_OneRecordPerIp ==
    /\ \A ip \in RegIPs : Cardinality(RowsOf(blocked_ips, ip)) <= 1
    /\ \A r \in blocked_ips, q \in blocked_ips : r.id = q.id => r = q
    /\ obs.op = "block" =>
           LET cur == RowOf(blocked_ips, obs.ip)
           IN  /\ Cardinality(RowsOf(blocked_ips, obs.ip)) = 1
               /\ Cardinality(blocked_ips)
                      = Cardinality({ip \in RegIPs : RowsOf(blocked_ips, ip) # {}})
               /\ cur.exists /\ cur.is_active /\ cur.blocked_by_admin
               /\ cur.reason = "Manually blocked by admin"
               /\ cur.is_permanent = obs.result
               /\ (~obs.result) =>
                      \E h \in DurationHours : cur.block_expires_at = obs.at + h * 3600
               /\ obs.before.exists =>
                      /\ cur.attempt_count = obs.before.attempt_count
                      /\ cur.rule = obs.before.rule
               /\ BlockInForce(cur, obs.at)
               /\ ( /\ obs.prev.op = "block" /\ obs.prev.ip = obs.ip
                    /\ obs.prev.result = obs.result /\ obs.prev.at = obs.at )
                  => cur = obs.before

\* a manual block updated the record that rule escalation had created
C13_Witness ==
    /\ obs.op = "block"
    /\ obs.before.exists
    /\ obs.before.rule # NoRule
    /\ ~obs.before.blocked_by_admin
    /\ Cardinality(RowsOf(blocked_ips, obs.ip)) = 1
    /\ RowOf(blocked_ips, obs.ip).blocked_by_admin

\* C14: no call lowers the attempt_count of a Block Record: an escalation
\* raises it by one, however long after the previous attempt, and a manual
\* block of an existing record, an unblock and an is_blocked call (with or
\* without lazy expiry) leave it as it was.
C14_AttemptCountMonotone ==
    obs.op \in {"is_blocked", "escalate", "block", "unblock"} =>
        LET cur == RowOf(blocked_ips, obs.ip)
        IN  /\ cur.attempt_count >= obs.before.attempt_count
            /\ (obs.op = "escalate" /\ obs.result) =>
                   cur.attempt_count = obs.before.attempt_count + 1
            /\ (obs.op # "escalate" /\ obs.before.exists) =>
                   cur.attempt_count = obs.before.attempt_count

\* an escalation found a record whose last attempt was longer ago than the
\* rule's time_window, and counted on from its attempt_count
C14_Witness ==
    /\ obs.op = "escalate"
    /\ obs.before.exists
    /\ obs.before.attempt_count >= 1
    /\ obs.before.last_attempt_at # NoExpiry
    /\ \E i \in DOMAIN rules :
           /\ rules[i].name = obs.before.rule
           /\ obs.at - obs.before.last_attempt_at > rules[i].time_window
    /\ RowOf(blocked_ips, obs.ip).attempt_count = obs.before.attempt_count + 1

(***************************************************************************)
(* Two request threads recording at the same time for one (ip, action):    *)
(* _record_ip_request runs its backend calls one by one, and the calls of  *)
(* the two threads interleave.                                             *)
(***************************************************************************)
RaceIp == "10.0.0.1"
RaceAction == "login"
NextWindow(w) == CASE w = "minute" -> "hour" [] w = "hour" -> "day" [] OTHER -> "done"
RaceKey(w) == RateLimitKey(RaceAction, "ip", RaceIp, w)

RaceTick ==
    /\ nticks < MaxTicks
    /\ nticks' = nticks + 1
    /\ now' = now + 1
    /\ UNCHANGED <<config, redis_db, cache_db, visitor_logs, callVars, webVars, unitVars, cfgVars>>

\* record_request: current_time = int(time.time()), then the loop over the
\* windows on the backend in use
RecStart(p) ==
    /\ procs[p].pc = "idle"
    /\ procs' = [procs EXCEPT ![p] =
                    [pc |-> IF redis_client THEN "zadd" ELSE "get",
                     window |-> "minute", current_time |-> now, timestamps |-> <<>>]]
    /\ UNCHANGED <<now, config, redis_db, cache_db, visitor_logs, callVars, webVars,
                   blocked_ips, nticks, tfVars, cfgVars>>

\* redis_client.zadd(key, {f"{current_time}:{success}": current_time})
RecZAdd(p) ==
    /\ procs[p].pc = "zadd"
    /\ redis_db' = [redis_db EXCEPT ![RaceKey(procs[p].window)] =
                       ZAdd(RedisLive(@, now), <<procs[p].current_time, FALSE>>)]
    /\ procs' = [procs EXCEPT ![p].pc = "expire"]
    /\ UNCHANGED <<now, config, cache_db, visitor_logs, callVars, webVars,
                   blocked_ips, nticks, tfVars, cfgVars>>

\* redis_client.expire(key, ...), then the next window
RecExpire(p) ==
    /\ procs[p].pc = "expire"
    /\ redis_db' = [redis_db EXCEPT ![RaceKey(procs[p].window)] =
                       Expire(RedisLive(@, now), now, KeyTimeout(procs[p].window))]
    /\ procs' = [procs EXCEPT ![p].window = NextWindow(@),
                              ![p].pc = IF NextWindow(procs[p].window) = "done"
                                        THEN "done" ELSE "zadd"]
    /\ UNCHANGED <<now, config, cache_db, visitor_logs, callVars, webVars,
                   blocked_ips, nticks, tfVars, cfgVars>>

\* timestamps = cache.get(key, []); timestamps.append(current_time)
RecGet(p) ==
    /\ procs[p].pc = "get"
    /\ procs' = [procs EXCEPT ![p].pc = "set",
                              ![p].timestamps =
                                  Append(CacheLive(cache_db[RaceKey(procs[p].window)],
                                                   now).timestamps,
                                         procs[p].current_time)]
    /\ UNCHANGED <<now, config, redis_db, cache_db, visitor_logs, callVars, webVars,
                   blocked_ips, nticks, tfVars, cfgVars>>

\* cache.set(key, timestamps, timeout), then the next window
RecSet(p) ==
    /\ procs[p].pc = "set"
    /\ cache_db' = [cache_db EXCEPT ![RaceKey(procs[p].window)] =
                       CacheSet(procs[p].timestamps, now, KeyTimeout(procs[p].window))]
    /\ procs' = [procs EXCEPT ![p].window = NextWindow(@),
                              ![p].timestamps = <<>>,
                              ![p].pc = IF NextWindow(procs[p].window) = "done"
                                        THEN "done" ELSE "get"]
    /\ UNCHANGED <<now, config, redis_db, visitor_logs, callVars, webVars,
                   blocked_ips, nticks, tfVars, cfgVars>>

RecordRaceNext ==
    \/ RaceTick
    \/ \E p \in Procs : RecStart(p)
    \/ \E p \in Procs : RecZAdd(p)
    \/ \E p \in Procs : RecExpire(p)
    \/ \E p \in Procs : RecGet(p)
    \/ \E p \in Procs : RecSet(p)

RecordRaceSpec == Init /\ [][RecordRaceNext]_vars

\* the count a check made now would read for window w of the raced key
RaceCount(w) ==
    GetRequestCount(redis_client, redis_db[RaceKey(w)], cache_db[RaceKey(w)],
                    now - WindowSeconds(w), now, "ok").count

\* C15: when two record_request calls for the same key, made at different
\* timestamps, have both returned, both events are stored and a count made
\* within the window sees both, whatever the interleaving and the backend.
C15_ConcurrentRecordsKept ==
    ( /\ \A p \in Procs : procs[p].pc = "done"
      /\ procs[1].current_time # procs[2].current_time )
    => \A w \in Windows : RaceCount(w) = 2

(***************************************************************************)
(* Two request threads writing the Block Record of one IP at the same      *)
(* time: every writer loads the row into a model object, changes the       *)
(* object, and save() writes all the fields of the object back.            *)
(***************************************************************************)
RaceKinds == {"escalate", "is_blocked", "block"}
RaceIdle(p) == procs[p].pc \in {"idle", "done"}

\* _apply_block_rule: BlockedIP.objects.get_or_create(ip_address=..., defaults=...)
EscLoad(p, i) ==
    /\ RaceIdle(p)
    /\ ncalls < MaxCalls
    /\ ncalls' = ncalls + 1
    /\ RuleApplies(rules[i], P_login)
    /\ blocked_ips' = IF RowsOf(blocked_ips, RaceIp) = {}
                      THEN PutRow(blocked_ips, RaceIp, BlockRuleDefaults(rules[i]))
                      ELSE blocked_ips
    /\ procs' = [procs EXCEPT ![p] =
                    [pc |-> "loaded", kind |-> "escalate", rule |-> i,
                     obj |-> IF RowsOf(blocked_ips, RaceIp) = {}
                             THEN BlockRuleDefaults(rules[i])
                             ELSE RowOf(blocked_ips, RaceIp)]]
    /\ matched' = [matched EXCEPT ![RaceIp][rules[i].name] = @ + 1]
    /\ UNCHANGED <<now, redis_client, config, rules, redis_db, cache_db, blocks,
                   visitor_logs, req, history, obs, nreq, nticks, nadmin, tfVars, cfgVars>>

\* _apply_block_rule: the changes to the object, then blocked_ip.save()
EscSave(p) ==
    /\ procs[p].pc = "loaded" /\ procs[p].kind = "escalate"
    /\ blocked_ips' = PutRow(blocked_ips, RaceIp,
                             ApplyBlockRule(procs[p].obj, rules[procs[p].rule], now))
    /\ procs' = [procs EXCEPT ![p] = [pc |-> "done"]]
    /\ UNCHANGED <<now, config, redis_db, cache_db, visitor_logs, callVars, webVars, nticks, tfVars, cfgVars>>

\* _is_ip_blocked: BlockedIP.objects.filter(ip_address, is_active=True).first()
IsbLoad(p) ==
    /\ RaceIdle(p)
    /\ ncalls < MaxCalls
    /\ ncalls' = ncalls + 1
    /\ procs' = [procs EXCEPT ![p] =
                    IF RowOf(blocked_ips, RaceIp).exists /\ RowOf(blocked_ips, RaceIp).is_active
                    THEN [pc |-> "loaded", kind |-> "is_blocked", rule |-> 0,
                          obj |-> RowOf(blocked_ips, RaceIp)]
                    ELSE [pc |-> "done"]]
    /\ UNCHANGED <<now, config, redis_db, cache_db, visitor_logs, history, obs, webVars,
                   blocked_ips, nticks, tfVars, cfgVars>>

\* BlockedIP.is_blocked on the loaded object: self.save() on lazy expiry
IsbSave(p) ==
    /\ procs[p].pc = "loaded" /\ procs[p].kind = "is_blocked"
    /\ blocked_ips' = IF IsBlocked(procs[p].obj, now).rec # procs[p].obj
                      THEN PutRow(blocked_ips, RaceIp, IsBlocked(procs[p].obj, now).rec)
                      ELSE blocked_ips
    /\ procs' = [procs EXCEPT ![p] = [pc |-> "done"]]
    /\ UNCHANGED <<now, config, redis_db, cache_db, visitor_logs, callVars, webVars, nticks, tfVars, cfgVars>>

\* block_ip_view: BlockedIP.objects.get_or_create(ip_address=..., defaults=...)
BlkLoad(p, is_permanent) ==
    /\ RaceIdle(p)
    /\ ncalls < MaxCalls
    /\ ncalls' = ncalls + 1
    /\ \E created \in {BlockIpView(NoBlock, is_permanent, 0, now)} :
       \E defaults \in {[created EXCEPT !.block_expires_at = NoExpiry]} :
           /\ blocked_ips' = IF RowsOf(blocked_ips, RaceIp) = {}
                             THEN PutRow(blocked_ips, RaceIp, defaults)
                             ELSE blocked_ips
           /\ procs' = [procs EXCEPT ![p] =
                           [pc |-> "loaded", kind |-> "block", rule |-> 0,
                            is_permanent |-> is_permanent,
                            obj |-> IF RowsOf(blocked_ips, RaceIp) = {}
                                    THEN defaults
                                    ELSE RowOf(blocked_ips, RaceIp)]]
    /\ UNCHANGED <<now, config, redis_db, cache_db, visitor_logs, history, obs, webVars,
                   nticks, tfVars, cfgVars>>

\* block_ip_view: the changes to the object, then blocked_ip.save()
BlkSave(p, duration_hours) ==
    /\ procs[p].pc = "loaded" /\ procs[p].kind = "block"
    /\ blocked_ips' = PutRow(blocked_ips, RaceIp,
                             BlockIpView(procs[p].obj, procs[p].is_permanent,
                                         duration_hours, now))
    /\ procs' = [procs EXCEPT ![p] = [pc |-> "done"]]
    /\ UNCHANGED <<now, config, redis_db, cache_db, visitor_logs, callVars, webVars, nticks, tfVars, cfgVars>>

RegistryRaceNext ==
    \/ Tick
    \/ \E p \in Procs, i \in DOMAIN rules : EscLoad(p, i)
    \/ \E p \in Procs : EscSave(p)
    \/ \E p \in Procs : IsbLoad(p)
    \/ \E p \in Procs : IsbSave(p)
    \/ \E p \in Procs, is_permanent \in BOOLEAN : BlkLoad(p, is_permanent)
    \/ \E p \in Procs, duration_hours \in DurationHours : BlkSave(p, duration_hours)

RegistryRaceSpec == StoreInit /\ [][RegistryRaceNext]_vars

\* C16: once no write of the Block Record is in progress, the attempt_count
\* of the record is the number of escalations made for the IP, whatever the
\* interleaving of the concurrent writers.
C16_NoLostEscalation ==
    (\A p \in Procs : RaceIdle(p)) =>
        \A i \in DOMAIN rules :
            RowOf(blocked_ips, RaceIp).attempt_count = matched[RaceIp][rules[i].name]

(***************************************************************************)
(* A decorated view behind RateLimitMiddleware.                            *)
(***************************************************************************)
\* hasattr(request, 'rate_limit_checked') when the request reaches the
\* wrapper through the middleware: process_request stores rate_limit_info
\* on the request and nothing else
MiddlewareMarksChecked == FALSE

\* the wrapper calling the view (answering status) and record_request
WrapperRecord(rc, rdb, cdb, rec, ip, action, user_identifier, status, t, calls) ==
    LET r == RecordRequest(rc, rdb, cdb, ip, action, user_identifier, t, IsSuccess(status))
    IN  [rdb |-> r.rdb, cdb |-> r.cdb, rec |-> rec, status |-> status,
         rejected |-> FALSE, calls |-> calls \o <<"record">>]
\* the wrapper after its check_rate_limit call answered c
WrapperAfterCheck(c, rc, ip, action, user_identifier, fail_on_limit, status, t) ==
    IF c.verdict.is_limited /\ fail_on_limit
    THEN [rdb |-> c.rdb, cdb |-> c.cdb, rec |-> c.rec, status |-> 429,
          rejected |-> TRUE, calls |-> <<"check">>]
    ELSE WrapperRecord(rc, c.rdb, c.cdb, c.rec, ip, action, user_identifier, status, t,
                       <<"check">>)
\* rate_limit.wrapper around a view answering status; checked is
\* hasattr(request, 'rate_limit_checked') on entry
Wrapper(rc, rdb, cdb, cfg, rec, ip, action, user, flags, status, t, checked) ==
    LET per_user == flags[1]
        per_ip == flags[2]
        fail_on_limit == flags[3]
        user_identifier == IF per_user THEN user ELSE NoUser
    IN  IF checked
        THEN [rdb |-> rdb, cdb |-> cdb, rec |-> rec, status |-> status,
              rejected |-> FALSE, calls |-> <<>>]
        ELSE IF per_ip \/ per_user
        THEN WrapperAfterCheck(CheckRateLimit(rc, rdb, cdb, cfg, rec, ip, action,
                                              user_identifier, t, NoFail),
                               rc, ip, action, user_identifier, fail_on_limit, status, t)
        ELSE WrapperRecord(rc, rdb, cdb, rec, ip, action, user_identifier, status, t, <<>>)

\* One request to a decorated view with the middleware installed:
\* process_request, the wrapper and the view unless process_request
\* answered, then process_response
StackedCall(ip, path, user, flags, status) ==
    /\ nreq < MaxRequests
    /\ nreq' = nreq + 1
    /\ \E a \in {ProcessRequest(redis_client, redis_db, cache_db, config, blocks[ip],
                                  ip, path, user, now, NoFail)} :
       \E w \in {IF a.responded
                 THEN [rdb |-> a.rdb, cdb |-> a.cdb, rec |-> a.rec, status |-> 429,
                       rejected |-> TRUE, calls |-> <<>>]
                 ELSE Wrapper(redis_client, a.rdb, a.cdb, config, a.rec, ip,
                              GetActionType(path), user, flags, status, now,
                              MiddlewareMarksChecked)} :
       \E b \in {ProcessResponse(redis_client, w.rdb, w.cdb, w.rec, rules,
                                  ip, path, user, w.status, now)} :
           /\ redis_db' = b.rdb
           /\ cache_db' = b.cdb
           /\ blocks' = [blocks EXCEPT ![ip] = b.rec]
           /\ visitor_logs' = visitor_logs
                                + Cardinality({i \in DOMAIN (a.calls \o w.calls) :
                                                 (a.calls \o w.calls)[i] = "check"})
           /\ req' = [via |-> "stacked", ip |-> ip, path |-> path,
                      status |-> w.status, rejected |-> w.rejected,
                      verdict |-> a.verdict,
                      retry_after_header |->
                          IF a.responded THEN RetryAfterHeader(a.verdict)
                          ELSE IF a.verdict.retry_after # 0 THEN a.verdict.retry_after
                          ELSE NoHeader,
                      calls |-> a.calls \o w.calls \o b.calls,
                      escalated |-> b.escalated]
           /\ matched' = IF b.escalated
                         THEN [matched EXCEPT ![ip] =
                                 [n \in RuleNames |->
                                    IF \E i \in DOMAIN rules :
                                          rules[i].name = n /\ RuleApplies(rules[i], path)
                                    THEN @[n] + 1 ELSE @[n]]]
                         ELSE matched
    /\ UNCHANGED <<now, redis_client, config, rules, nticks, nadmin, callVars, unitVars, cfgVars>>

StackNext ==
    \/ Tick
    \/ \E ip \in IPs, path \in Paths, user \in UserIds \cup {NoUser}, status \in Statuses :
          MiddlewareCall(ip, path, user, status, NoFail)
    \/ \E ip \in IPs, path \in Paths, user \in UserIds \cup {NoUser},
          flags \in DecoratorFlags, status \in Statuses :
          StackedCall(ip, path, user, flags, status)

StackSpec == Init /\ [][StackNext]_vars

CallCount(calls, name) == Cardinality({i \in DOMAIN calls : calls[i] = name})

\* C17: for every request that reached its view, through the middleware
\* alone or through the middleware and a decorated view, check_rate_limit
\* ran exactly once and record_request ran exactly once.
C17_CheckedAndRecordedOnce ==
    (req.via \in {"middleware", "stacked"} /\ ~req.rejected) =>
        /\ CallCount(req.calls, "check") = 1
        /\ CallCount(req.calls, "record") = 1

(***************************************************************************)
(* TwoFactorRateLimiter (utils.py): attempts are rows of TwoFactorAttempt, *)
(* created_at in seconds.                                                  *)
(***************************************************************************)
MAX_ATTEMPTS_PER_USER == 5
MAX_ATTEMPTS_PER_IP == 10
TIME_WINDOW_MINUTES == 15
LOCKOUT_DURATION_MINUTES == 30
TfUsers == {"a@x.org"}
TfIPs == {"10.0.0.1"}
TfTickSteps == {60, 901, 1799}
MaxTfAttempts == 5    \* attempts logged in one behaviour
MaxTfTicks == 2       \* clock advances between 2FA calls in one behaviour

\* .count() of the rows sel selected from the table
TfCount(attempts, sel) ==
    IF sel = {} THEN 0 ELSE BagCardinality([a \in sel |-> attempts[a]])
\* filter(user=user, success=False).order_by('-created_at').first()
LastFailure(attempts, user) ==
    LET f == {a \in BagToSet(attempts) : a.user = user /\ ~a.success}
    IN  IF f = {} THEN NoExpiry
        ELSE (CHOOSE a \in f : \A b \in f : b.created_at <= a.created_at).created_at

\* is_rate_limited with the lockout counted from the time of the check
IsRateLimitedFromNow(attempts, user, ip_address, t) ==
    LET time_window_start == t - TIME_WINDOW_MINUTES * 60
        user_attempts == TfCount(attempts, {a \in BagToSet(attempts) : a.user = user /\ ~a.success
                                                      /\ a.created_at >= time_window_start})
    IN  IF user_attempts >= MAX_ATTEMPTS_PER_USER
        THEN [limited |-> TRUE, remaining_attempts |-> 0,
              lockout_ends_at |-> t + LOCKOUT_DURATION_MINUTES * 60]
        ELSE [limited |-> FALSE,
              remaining_attempts |-> MAX_ATTEMPTS_PER_USER - user_attempts,
              lockout_ends_at |-> NoExpiry]

\* TwoFactorRateLimiter.is_rate_limited(user, ip_address)
IsRateLimited(attempts, user, ip_address, t) ==
    LET time_window_start == t - TIME_WINDOW_MINUTES * 60
        lockout_end == t - LOCKOUT_DURATION_MINUTES * 60
        user_attempts == TfCount(attempts, {a \in BagToSet(attempts) : a.user = user /\ ~a.success
                                                      /\ a.created_at >= time_window_start})
        recent_failures == TfCount(attempts, {a \in BagToSet(attempts) : a.user = user /\ ~a.success
                                                        /\ a.created_at >= lockout_end})
        last_failure == LastFailure(attempts, user)
        ip_attempts == TfCount(attempts, {a \in BagToSet(attempts) : a.ip_address = ip_address /\ ~a.success
                                                    /\ a.created_at >= time_window_start})
    IN  IF /\ recent_failures >= MAX_ATTEMPTS_PER_USER
           /\ last_failure # NoExpiry
           /\ t < last_failure + LOCKOUT_DURATION_MINUTES * 60
        THEN [limited |-> TRUE, remaining_attempts |-> 0,
              lockout_ends_at |-> last_failure + LOCKOUT_DURATION_MINUTES * 60]
        ELSE IF user_attempts >= MAX_ATTEMPTS_PER_USER
        THEN [limited |-> TRUE, remaining_attempts |-> 0,
              lockout_ends_at |-> t + LOCKOUT_DURATION_MINUTES * 60]
        ELSE IF ip_address # "" /\ ip_attempts >= MAX_ATTEMPTS_PER_IP
        THEN [limited |-> TRUE, remaining_attempts |-> 0,
              lockout_ends_at |-> t + LOCKOUT_DURATION_MINUTES * 60]
        ELSE [limited |-> FALSE,
              remaining_attempts |-> MAX_ATTEMPTS_PER_USER - user_attempts,
              lockout_ends_at |-> NoExpiry]

TfTick ==
    /\ nticks < MaxTfTicks
    /\ nticks' = nticks + 1
    /\ \E d \in TfTickSteps : now' = now + d
    /\ UNCHANGED <<config, redis_db, cache_db, visitor_logs, callVars, webVars, unitVars, cfgVars>>

\* TwoFactorRateLimiter.log_attempt(user, ip_address, success)
TfLogAttempt(user, ip_address, success) ==
    /\ BagCardinality(tf_attempts) < MaxTfAttempts
    /\ tf_attempts' = tf_attempts (+) SetToBag({[user |-> user, ip_address |-> ip_address,
                                                 success |-> success, created_at |-> now]})
    /\ obs' = [op |-> "tf_log"]
    /\ UNCHANGED <<now, config, redis_db, cache_db, visitor_logs, history, ncalls, webVars,
                   blocked_ips, procs, nticks, cfgVars>>

\* the is_rate_limited call before the last one, when no attempt was logged
\* since
PrevTfCheck ==
    IF obs.op = "tf_check"
    THEN [op |-> "tf_check", user |-> obs.user, at |-> obs.at, result |-> obs.result]
    ELSE [op |-> "none", user |-> "", at |-> 0,
          result |-> [limited |-> FALSE, remaining_attempts |-> 0,
                      lockout_ends_at |-> NoExpiry]]

TfCheck(user, ip_address) ==
    /\ ncalls < MaxCalls
    /\ ncalls' = ncalls + 1
    /\ obs' = [op |-> "tf_check", user |-> user, ip_address |-> ip_address, at |-> now,
               result |-> IsRateLimited(tf_attempts, user, ip_address, now),
               prev |-> PrevTfCheck]
    /\ UNCHANGED <<now, config, redis_db, cache_db, visitor_logs, history, webVars,
                   unitVars, nticks, cfgVars>>

TwoFactorNext ==
    \/ TfTick
    \/ \E user \in TfUsers, ip_address \in TfIPs, success \in BOOLEAN :
          TfLogAttempt(user, ip_address, success)
    \/ \E user \in TfUsers, ip_address \in TfIPs \cup {""} : TfCheck(user, ip_address)

TwoFactorSpec == StoreInit /\ [][TwoFactorNext]_vars

\* failed attempts of the user logged in the 15 minutes before the last check
TfWindowFailures ==
    TfCount(tf_attempts, {a \in BagToSet(tf_attempts) : a.user = obs.user /\ ~a.success
                                    /\ a.created_at >= obs.at - 900})

\* C18: a check of a user with at least 5 failed attempts in the trailing 15
\* minutes answers limited, 0 remaining, and a lockout end 30 minutes after
\* the most recent failure; a check that answers not limited reports
\* 5 minus the failures of the window as remaining, never less than 0.
C18_TwoFactorLimit ==
    obs.op = "tf_check" =>
        /\ TfWindowFailures >= 5 =>
               /\ obs.result.limited
               /\ obs.result.remaining_attempts = 0
               /\ obs.result.lockout_ends_at = LastFailure(tf_attempts, obs.user) + 1800
        /\ (~obs.result.limited) =>
               /\ obs.result.remaining_attempts = 5 - TfWindowFailures
               /\ obs.result.remaining_attempts >= 0

\* a check found five failures in the window, the last of them before the
\* time of the check
C18_Witness ==
    /\ obs.op = "tf_check"
    /\ TfWindowFailures >= 5
    /\ obs.result.limited
    /\ obs.result.lockout_ends_at < obs.at + 1800

\* C19: after a check answered limited, with no attempt logged since, every
\* check of the user made before the reported lockout end answers limited.
C19_LockoutLasts ==
    ( /\ obs.op = "tf_check"
      /\ obs.prev.op = "tf_check"
      /\ obs.prev.user = obs.user
      /\ obs.prev.result.limited
      /\ obs.at < obs.prev.result.lockout_ends_at )
    => obs.result.limited

(***************************************************************************)
(* Lifetime of the counter keys: the direct calls of StoreSpec under a     *)
(* clock that can step past a window and then past the cache's filter      *)
(* timeout.                                                                *)
(***************************************************************************)
LifetimeTickSteps == {1, 300, 3600}
MaxLifetimeTicks == 3    \* clock advances in one behaviour of LifetimeSpec

LifetimeTick ==
    /\ nticks < MaxLifetimeTicks
    /\ \E d \in LifetimeTickSteps : now' = now + d
    /\ nticks' = nticks + 1
    /\ UNCHANGED <<config, redis_db, cache_db, visitor_logs, callVars, webVars, unitVars, cfgVars>>

LifetimeNext ==
    \/ LifetimeTick
    \/ \E ip \in IPs, action \in DecoratorActions, user \in UserIds \cup {NoUser},
          success \in BOOLEAN : CallRecord(ip, action, user, success)
    \/ \E ip \in IPs, action \in DecoratorActions, user \in UserIds \cup {NoUser},
          fail \in StoreFailChoices : CallCheck(ip, action, user, fail)

LifetimeSpec == StoreInit /\ [][LifetimeNext]_vars

\* the timestamps held under key k by backend b at the current time
StoredTimestamps(b, k) ==
    IF b = "redis"
    THEN {m[1] : m \in RedisLive(redis_db[k], now).members}
    ELSE LET ts == CacheLive(cache_db[k], now).timestamps
         IN  {ts[i] : i \in DOMAIN ts}

\* C20: on both backends every recorded event that is still inside the
\* window of a key (younger than the window, hence younger than the key
\* lifetime of twice the window set by its increment) is still stored under
\* the key.
C20_EventsInWindowStored ==
    \A b \in Backends, k \in Keys :
        \A e \in RecordedEvents(k[2], k[3], k[1], k[4]) :
            e.ts \in StoredTimestamps(b, k)

(***************************************************************************)
(* The RateLimitConfig table and the configuration the limiter holds. The  *)
(* module-level limiter reads the table once, in its constructor.          *)
(***************************************************************************)
ConfigNames == {"default", "test_config"}
AdminLimits == {2, 3}
\* the row _get_rate_limit_config creates, and the in-memory fallback
DefaultConfig == MakeConfig(5, 20, 100, 3, 10, 50)
\* a row saved with login_ip_limit_per_minute = im and
\* login_user_limit_per_minute = um, the other fields at the model defaults
ConfigWith(im, um) == MakeConfig(im, 20, 100, um, 10, 50)

ActiveConfigs(rows) == {r \in rows : r.is_active}
\* INSERT / UPDATE of the row named row.name (the name column is unique)
SaveConfig(rows, row) == {r \in rows : r.name # row.name} \cup {row}

\* RedisRateLimiter._get_rate_limit_config: the outcomes of one call.  The
\* query has no ordering, so first() is any active row; the create of the
\* row "default" fails on the unique name when an inactive row of that name
\* exists, and the except branch answers the in-memory defaults.
GetRateLimitConfig(rows) ==
    IF ActiveConfigs(rows) # {}
    THEN {[config |-> r.fields, rows |-> rows] : r \in ActiveConfigs(rows)}
    ELSE IF \E r \in rows : r.name = "default"
    THEN {[config |-> DefaultConfig, rows |-> rows]}
    ELSE {[config |-> DefaultConfig,
           rows |-> rows \cup {[name |-> "default", is_active |-> TRUE,
                                fields |-> DefaultConfig]}]}

policyFrame == <<now, redis_client, rules, redis_db, cache_db, blocks, visitor_logs, req,
                 matched, history, blocked_ips, procs, tf_attempts, nreq, nticks, ncalls>>

\* a worker process starts: rate_limiter = RedisRateLimiter()
StartProcess ==
    /\ \E g \in GetRateLimitConfig(rate_limit_configs) :
          /\ config' = g.config
          /\ rate_limit_configs' = g.rows
    /\ obs' = [op |-> "start"]
    /\ UNCHANGED <<policyFrame, nadmin>>

\* RateLimitConfigAdmin add / change form saved
AdminSaveConfig(name, is_active, limit) ==
    /\ nadmin < MaxAdminOps
    /\ nadmin' = nadmin + 1
    /\ rate_limit_configs' =
          SaveConfig(rate_limit_configs,
                     [name |-> name, is_active |-> is_active,
                      fields |-> ConfigWith(limit, 3)])
    /\ obs' = [op |-> "admin_save", name |-> name]
    /\ UNCHANGED <<policyFrame, config>>

\* test_rate_limiting: RateLimitConfig.objects.get_or_create(name="test_config",
\* defaults={login_ip_limit_per_minute: 3, login_user_limit_per_minute: 2,
\* is_active: True})
TestRateLimiting ==
    /\ nadmin < MaxAdminOps
    /\ nadmin' = nadmin + 1
    /\ rate_limit_configs' =
          IF \E r \in rate_limit_configs : r.name = "test_config"
          THEN rate_limit_configs
          ELSE rate_limit_configs \cup {[name |-> "test_config", is_active |-> TRUE,
                                          fields |-> ConfigWith(3, 2)]}
    /\ obs' = [op |-> "test_script"]
    /\ UNCHANGED <<policyFrame, config>>

PolicyCheck ==
    \E ip \in IPs, action \in DecoratorActions, user \in UserIds \cup {NoUser} :
        CallCheck(ip, action, user, NoFail)

PolicyNext ==
    \/ StartProcess
    \/ \E name \in ConfigNames, is_active \in BOOLEAN, limit \in AdminLimits :
          AdminSaveConfig(name, is_active, limit)
    \/ TestRateLimiting
    \/ PolicyCheck

PolicySpec == StoreInit /\ [][PolicyNext]_vars

\* C21: exactly one RateLimitConfig row has is_active = true.
C21_ExactlyOneActive ==
    Cardinality(ActiveConfigs(rate_limit_configs)) = 1

\* One running process: the administrator edits the table while the
\* limiter built at start-up keeps answering checks.
\* rate_limiter.check_rate_limit called for as long as the process runs: the
\* call counter and the visitor log stop growing at MaxCalls, the checks go on
RunningCheck ==
    \E ip \in IPs, action \in DecoratorActions, user \in UserIds \cup {NoUser} :
        /\ ncalls' = IF ncalls < MaxCalls THEN ncalls + 1 ELSE ncalls
        /\ visitor_logs' = IF ncalls < MaxCalls THEN visitor_logs + 1 ELSE visitor_logs
        /\ \E r \in {CheckRateLimit(TRUE, redis_db, cache_db, config, blocks[ip],
                                    ip, action, user, now, NoFail)} :
           \E c \in {CheckRateLimit(FALSE, redis_db, cache_db, config, blocks[ip],
                                    ip, action, user, now, NoFail)} :
               /\ redis_db' = r.rdb
               /\ cache_db' = c.cdb
               /\ obs' = [op |-> "check", ip |-> ip, action |-> action, user |-> user,
                          redis |-> r.verdict, cache |-> c.verdict]
        /\ UNCHANGED <<now, config, history, nticks, webVars, unitVars, cfgVars>>

RunningNext ==
    \/ \E name \in ConfigNames, is_active \in BOOLEAN, limit \in AdminLimits :
          AdminSaveConfig(name, is_active, limit)
    \/ RunningCheck

RunningSpec == StoreInit /\ [][RunningNext]_vars /\ WF_vars(RunningCheck)

\* the ip limits of the action in a configuration
IpLimits(cfg, action) == [w \in Windows |-> LimitFor(cfg, action, "ip", w)]
\* no active row carries the ip limits the limiter holds for login
PolicyStale ==
    /\ ActiveConfigs(rate_limit_configs) # {}
    /\ \A r \in ActiveConfigs(rate_limit_configs) :
          IpLimits(r.fields, "login") # IpLimits(config, "login")

\* C27: once the active configuration carries limits other than those the
\* limiter holds, a later check in the same process compares the counts
\* against the limits of an active configuration.
C27_PolicyRefreshed ==
    PolicyStale ~>
        ( /\ obs.op = "check"
          /\ \E r \in ActiveConfigs(rate_limit_configs) :
                obs.redis.ip_info.limit = IpLimits(r.fields, obs.action) )

(***************************************************************************)
(* The limiter called directly for every class of action: the actions that *)
(* borrow the login limits, the api action, and an action without fields.  *)
(***************************************************************************)
ClassActions == {"login", "register", "password_reset", "2fa", "api", "auth"}
ClassKeys == (ClassActions \X {"ip"} \X IPs \X Windows)
             \cup (ClassActions \X {"user"} \X UserIds \X Windows)
\* a stored configuration whose api limits differ from the getattr defaults
ClassConfig ==
    [MakeConfig(2, 3, 4, 1, 2, 3) EXCEPT !["api_ip_limit_per_minute"] = 5,
                                         !["api_ip_limit_per_hour"] = 6,
                                         !["api_user_limit_per_minute"] = 7,
                                         !["api_user_limit_per_hour"] = 8]

ClassInit ==
    /\ now = T0
    /\ redis_client = TRUE
    /\ config = ClassConfig
    /\ rules \in RuleTableChoices
    /\ redis_db = [k \in ClassKeys |-> RedisAbsent]
    /\ cache_db = [k \in ClassKeys |-> CacheAbsent]
    /\ blocks = [ip \in IPs |-> NoBlock]
    /\ visitor_logs = 0
    /\ req = IdleReq
    /\ matched = [ip \in IPs |-> [n \in RuleNames |-> 0]]
    /\ history = EmptyBag
    /\ obs = NoObs
    /\ blocked_ips = {}
    /\ procs = [p \in Procs |-> IdleProc]
    /\ tf_attempts = EmptyBag
    /\ rate_limit_configs = {[name |-> "default", is_active |-> TRUE, fields |-> config]}
    /\ nreq = 0 /\ nticks = 0 /\ nadmin = 0 /\ ncalls = 0

ClassTick ==
    /\ nticks < MaxTicks
    /\ now' = now + 60
    /\ nticks' = nticks + 1
    /\ UNCHANGED <<config, redis_db, cache_db, visitor_logs, callVars, webVars, unitVars, cfgVars>>

ClassNext ==
    \/ ClassTick
    \/ \E ip \in IPs, action \in ClassActions, user \in UserIds :
          CallRecord(ip, action, user, FALSE)
    \/ \E ip \in IPs, action \in ClassActions, user \in UserIds \cup {NoUser} :
          CallCheck(ip, action, user, NoFail)

ClassSpec == ClassInit /\ [][ClassNext]_vars

\* the limit the stored configuration carries for the class of the action
ExpectedLimit(action, scope, w) ==
    IF action \in {"login", "register", "password_reset", "2fa"}
    THEN (CASE scope = "ip" /\ w = "minute" -> config["login_ip_limit_per_minute"]
            [] scope = "ip" /\ w = "hour" -> config["login_ip_limit_per_hour"]
            [] scope = "ip" /\ w = "day" -> config["login_ip_limit_per_day"]
            [] scope = "user" /\ w = "minute" -> config["login_user_limit_per_minute"]
            [] scope = "user" /\ w = "hour" -> config["login_user_limit_per_hour"]
            [] OTHER -> config["login_user_limit_per_day"])
    ELSE IF action = "api" /\ w # "day"
    THEN (CASE scope = "ip" /\ w = "minute" -> config["api_ip_limit_per_minute"]
            [] scope = "ip" /\ w = "hour" -> config["api_ip_limit_per_hour"]
            [] scope = "user" /\ w = "minute" -> config["api_user_limit_per_minute"]
            [] OTHER -> config["api_user_limit_per_hour"])
    ELSE (CASE scope = "ip" /\ w = "minute" -> 60
            [] scope = "ip" /\ w = "hour" -> 1000
            [] scope = "ip" /\ w = "day" -> 10000
            [] scope = "user" /\ w = "minute" -> 100
            [] scope = "user" /\ w = "hour" -> 2000
            [] OTHER -> 50000)

\* events recorded so far for (scope, id) under the action itself
OwnEvents(scope, id, action) ==
    LET evs == {e \in BagToSet(history) :
                  /\ e.action = action
                  /\ IF scope = "ip" THEN e.ip = id ELSE e.user = id}
    IN  IF evs = {} THEN 0 ELSE BagCardinality([e \in evs |-> history[e]])

\* C22: a check reports and compares, in each scope and window, the login
\* limit for register, password_reset and 2fa, the action's own field for
\* the other actions and the built-in default where there is no field; the
\* count it compares holds events recorded under the request's own action
\* only.
C22_LimitOfActionClass ==
    obs.op = "check" =>
        \A b \in Backends, scope \in Scopes :
            LET info == ScopeInfo(b, scope)
            IN  ~info.empty =>
                  /\ \A w \in Windows :
                        /\ info.limit[w] = ExpectedLimit(obs.action, scope, w)
                        /\ info.count[w] <= OwnEvents(scope, ScopeId(scope), obs.action)
                  /\ (info.blocked_window # "none")
                        <=> \E w \in Windows :
                               info.count[w] >= ExpectedLimit(obs.action, scope, w)

\* a check of register after login events were recorded: it carries the
\* login limit and counts none of them
C22_Witness ==
    /\ obs.op = "check"
    /\ obs.action = "register"
    /\ obs.redis.ip_info.limit["minute"] = 2
    /\ obs.redis.ip_info.count["minute"] = 0
    /\ obs.cache.ip_info.count["minute"] = 0
    /\ \E e \in BagToSet(history) : e.action = "login" /\ e.ts = now

(***************************************************************************)
(* The rule matcher behind the middleware, over rule tables with an        *)
(* unset, a blank and a non-compiling pattern and over monitored,          *)
(* unmonitored and excluded paths.                                         *)
(***************************************************************************)
\* request_path_pattern = '' (the column is blank=True): re.search('', path)
\* matches at position 0 of every path
BlankPattern == Literal(<<>>)
\* a pattern re.compile rejects, e.g. 'auth/login(': `pattern in path`
BrokenPattern(text) == [null |-> FALSE, valid |-> FALSE, text |-> text]
MatcherRuleTables ==
    {<<RuleLogin>>,
     <<[RuleLogin EXCEPT !.request_path_pattern = NullPattern]>>,
     <<[RuleLogin EXCEPT !.request_path_pattern = BlankPattern]>>,
     <<[RuleLogin EXCEPT !.request_path_pattern = BrokenPattern(<<"auth", "login">>)]>>,
     <<[RuleLogin EXCEPT !.is_active = FALSE]>>}
P_items == <<"api", "items">>
P_static == <<"static", "app.js">>
P_jsi18n == <<"admin", "jsi18n">>
MatcherPaths == {P_login, P_items, P_static, P_jsi18n}

MatcherInit ==
    /\ now = T0
    /\ redis_client \in BOOLEAN
    /\ config \in ConfigChoices
    /\ rules \in MatcherRuleTables
    /\ redis_db = [k \in Keys |-> RedisAbsent]
    /\ cache_db = [k \in Keys |-> CacheAbsent]
    /\ blocks = [ip \in IPs |-> NoBlock]
    /\ visitor_logs = 0
    /\ req = IdleReq
    /\ matched = [ip \in IPs |-> [n \in RuleNames |-> 0]]
    /\ history = EmptyBag
    /\ obs = NoObs
    /\ blocked_ips = {}
    /\ procs = [p \in Procs |-> IdleProc]
    /\ tf_attempts = EmptyBag
    /\ rate_limit_configs = {[name |-> "default", is_active |-> TRUE, fields |-> config]}
    /\ nreq = 0 /\ nticks = 0 /\ nadmin = 0 /\ ncalls = 0

MatcherNext ==
    \/ Tick
    \/ \E ip \in IPs, path \in MatcherPaths, status \in Statuses :
          MiddlewareCall(ip, path, NoUser, status, NoFail)

MatcherSpec == MatcherInit /\ [][MatcherNext]_vars

\* the rule is not one the matcher should test
NotTested(rule) ==
    \/ ~rule.is_active
    \/ rule.request_path_pattern.null
    \/ rule.request_path_pattern.text = <<>>

\* C23: a rule that is inactive or whose pattern is null or the empty
\* string matched no response and no BlockedIP row refers to it; with a
\* pattern that does not compile the last response was matched exactly when
\* it was a failure on a monitored path containing the pattern text.
C23_BlankPatternNeverMatches ==
    \A i \in DOMAIN rules :
        /\ NotTested(rules[i]) =>
              \A ip \in IPs : /\ matched[ip][rules[i].name] = 0
                              /\ blocks[ip].rule # rules[i].name
        /\ (~NotTested(rules[i]) /\ ~rules[i].request_path_pattern.valid
            /\ req.via = "middleware") =>
              (req.escalated <=>
                  /\ ~IsSuccess(req.status)
                  /\ ~IsExcludedPath(req.path)
                  /\ IsMonitoredPath(req.path)
                  /\ Contains(req.path, rules[i].request_path_pattern.text))

\* the last request went through the middleware and either completed with
\* a 2xx/3xx status or was outside the monitored or inside the excluded
\* prefixes
OutsideMatcher(r) ==
    /\ r.via = "middleware"
    /\ \/ IsSuccess(r.status)
       \/ ~IsMonitoredPath(r.path)
       \/ IsExcludedPath(r.path)

\* C24 (as stated): such a request creates no BlockedIP row and leaves
\* attempt_count, block_expires_at and is_active of every row unchanged.
C24_NoBlockChange ==
    [][(nreq' = nreq + 1 /\ OutsideMatcher(req')) =>
          \A ip \in IPs :
              /\ blocks'[ip].exists = blocks[ip].exists
              /\ blocks'[ip].attempt_count = blocks[ip].attempt_count
              /\ blocks'[ip].block_expires_at = blocks[ip].block_expires_at
              /\ blocks'[ip].is_active = blocks[ip].is_active]_vars

\* C24 (amended): such a request creates no BlockedIP row, leaves
\* attempt_count and block_expires_at of every row unchanged and activates
\* no row; is_active changes only from true to false, by the lazy expiry of
\* the check in process_request, and not at all on an excluded path.
C24_NoEscalation ==
    [][(nreq' = nreq + 1 /\ OutsideMatcher(req')) =>
          \A ip \in IPs :
              /\ blocks'[ip].exists = blocks[ip].exists
              /\ blocks'[ip].attempt_count = blocks[ip].attempt_count
              /\ blocks'[ip].block_expires_at = blocks[ip].block_expires_at
              /\ blocks'[ip].is_active => blocks[ip].is_active
              /\ IsExcludedPath(req'.path) => blocks'[ip] = blocks[ip]]_vars

\* a request on the monitored login path completed with 200 for an address
\* that has a BlockedIP row
C24_Witness ==
    /\ OutsideMatcher(req)
    /\ req.path = P_login
    /\ req.status = 200
    /\ blocks[req.ip].exists
    /\ blocks[req.ip].attempt_count >= 1

(***************************************************************************)
(* Views behind the rate_limit decorator alone, for every combination of   *)
(* per_user and per_ip the decorator accepts.                              *)
(***************************************************************************)
AllDecoratorFlags == DecoratorFlags \cup {<<TRUE, FALSE, TRUE>>, <<FALSE, TRUE, TRUE>>}

DecoratorNext ==
    \/ Tick
    \/ \E ip \in IPs, action \in DecoratorActions, user \in UserIds \cup {NoUser},
          flags \in AllDecoratorFlags, status \in Statuses :
          DecoratedView(ip, action, user, flags[1], flags[2], flags[3], status, NoFail)

DecoratorSpec == Init /\ [][DecoratorNext]_vars

\* C25: a view decorated with per_ip=False is rejected only when the user
\* scope is limited, never because of the counters or a block of the IP;
\* with per_ip=False and per_user=False no check is made.
C25_PerIpOff ==
    (req.via = "decorator" /\ ~req.per_ip) =>
        /\ req.rejected => req.verdict.user_limited
        /\ ~req.per_user => (\A i \in DOMAIN req.calls : req.calls[i] # "check")

\* the count a check made now would read for the key on the backend in use
CountNow(rdb, cdb, key, t) ==
    GetRequestCount(redis_client, rdb[key], cdb[key], t - WindowSeconds(key[4]), t, "ok").count

\* C26: a successful unblock_ip_view of an IP leaves, for every action and
\* window, a count of 0 under the keys of that IP.
C26_UnblockClearsCounters ==
    [][\A ip \in IPs :
          (nadmin' = nadmin + 1 /\ blocks[ip].is_active /\ ~blocks'[ip].is_active) =>
              \A action \in Actions, w \in Windows :
                  CountNow(redis_db', cache_db', RateLimitKey(action, "ip", ip, w), now') = 0]_vars

\* the BlockedIP row of the address is an active temporary block in force
TemporaryBlockInForce(rec, t) ==
    /\ rec.exists /\ rec.is_active /\ ~rec.is_permanent
    /\ rec.block_expires_at # NoExpiry
    /\ t <= rec.block_expires_at

\* C28: a request the middleware rejects because the IP is blocked leaves
\* block_expires_at and attempt_count of the BlockedIP row unchanged.
C28_RejectedRequestsKeepExpiry ==
    [][\A ip \in IPs :
          ( /\ nreq' = nreq + 1
            /\ req'.via = "middleware" /\ req'.ip = ip
            /\ req'.rejected /\ req'.verdict.ip_blocked
            /\ TemporaryBlockInForce(blocks[ip], now) )
          => /\ blocks'[ip].block_expires_at = blocks[ip].block_expires_at
             /\ blocks'[ip].attempt_count = blocks[ip].attempt_count]_vars

(***************************************************************************)
(* Rule-triggered blocks that end, by lazy expiry or by unblock_ip_view,   *)
(* and the failures that follow, for thresholds of 2 and 3.                *)
(***************************************************************************)
ReblockRuleTables == {<<RuleLogin>>, <<[RuleLogin EXCEPT !.max_attempts = 3]>>}

ReblockInit ==
    /\ now = T0
    /\ redis_client \in BOOLEAN
    /\ config \in ConfigChoices
    /\ rules \in ReblockRuleTables
    /\ redis_db = [k \in Keys |-> RedisAbsent]
    /\ cache_db = [k \in Keys |-> CacheAbsent]
    /\ blocks = [ip \in IPs |-> NoBlock]
    /\ visitor_logs = 0
    /\ req = IdleReq
    /\ matched = [ip \in IPs |-> [n \in RuleNames |-> 0]]
    /\ history = EmptyBag
    /\ obs = NoObs
    /\ blocked_ips = {}
    /\ procs = [p \in Procs |-> IdleProc]
    /\ tf_attempts = EmptyBag
    /\ rate_limit_configs = {[name |-> "default", is_active |-> TRUE, fields |-> config]}
    /\ nreq = 0 /\ nticks = 0 /\ nadmin = 0 /\ ncalls = 0

ReblockNext ==
    \/ Tick
    \/ \E ip \in IPs, path \in Paths, status \in Statuses :
          MiddlewareCall(ip, path, NoUser, status, NoFail)
    \/ \E ip \in IPs : UnblockIp(ip)

ReblockSpec == ReblockInit /\ [][ReblockNext]_vars

\* the row is a rule-triggered block that has ended: unblocked, or past its
\* expiry
BlockEnded(rec, t) ==
    /\ rec.exists /\ rec.rule # NoRule /\ ~rec.is_permanent
    /\ \/ ~rec.is_active
       \/ rec.block_expires_at # NoExpiry /\ t > rec.block_expires_at
\* the step is one request of the IP through the middleware whose failed
\* response matched a rule, made after the block of the IP had ended
FailureAfterBlockEnded(ip) ==
    /\ nreq' = nreq + 1
    /\ req'.via = "middleware" /\ req'.ip = ip
    /\ ~req'.rejected /\ req'.escalated
    /\ BlockEnded(blocks[ip], now)

\* C29 (as stated): a single matching failure after the block ended does
\* not re-activate the block.
C29_SingleFailureNoReblock ==
    [][\A ip \in IPs : FailureAfterBlockEnded(ip) => ~blocks'[ip].is_active]_vars

\* C29 (amended): a matching failure after the block ended adds 1 to the
\* attempt_count kept from before the block ended, and the block is active
\* again exactly when that count has reached the rule's max_attempts, with
\* an expiry of block_duration from the failure.
C29_ReblockOnAccumulatedCount ==
    [][\A ip \in IPs : FailureAfterBlockEnded(ip) =>
          /\ blocks'[ip].attempt_count = blocks[ip].attempt_count + 1
          /\ blocks'[ip].is_active <=> blocks'[ip].attempt_count >= rules[1].max_attempts
          /\ blocks'[ip].block_expires_at = now + rules[1].block_duration]_vars

\* an admitted request whose failure re-activated the block on an
\* accumulated count
C29_Witness ==
    /\ req.via = "middleware" /\ req.escalated /\ ~req.rejected
    /\ blocks[req.ip].is_active
    /\ blocks[req.ip].attempt_count >= 2
    /\ blocks[req.ip].last_attempt_at = now

(***************************************************************************)
(* The 2FA verification views (views.py) in front of the limiter.          *)
(***************************************************************************)
\* what the submitted code turns out to be
TfOutcomes == {"valid", "invalid", "malformed"}
TfRow(user, ip_address, success, t) ==
    [user |-> user, ip_address |-> ip_address, success |-> success, created_at |-> t]
TfLogged(attempts, user, ip_address, success, t) ==
    attempts (+) SetToBag({TfRow(user, ip_address, success, t)})

\* a verification view that logs the failed attempt before it looks at the
\* limit
TwoFactorVerifyLogFirst(attempts, user, ip_address, outcome, t) ==
    IF outcome = "valid" /\ ~IsRateLimited(attempts, user, ip_address, t).limited
    THEN [attempts |-> TfLogged(attempts, user, ip_address, TRUE, t), status |-> 200]
    ELSE [attempts |-> TfLogged(attempts, user, ip_address, FALSE, t),
          status |-> IF IsRateLimited(TfLogged(attempts, user, ip_address, FALSE, t),
                                      user, ip_address, t).limited
                     THEN 429 ELSE 400]
\* two_factor_verify_view: the table after the request and the status
TwoFactorVerify(attempts, user, ip_address, outcome, t) ==
    IF IsRateLimited(attempts, user, ip_address, t).limited
    THEN [attempts |-> attempts, status |-> 429]
    ELSE IF outcome = "valid"
    THEN [attempts |-> TfLogged(attempts, user, ip_address, TRUE, t), status |-> 200]
    ELSE [attempts |-> TfLogged(attempts, user, ip_address, FALSE, t),
          status |-> IF IsRateLimited(TfLogged(attempts, user, ip_address, FALSE, t),
                                      user, ip_address, t).limited
                     THEN 429 ELSE 400]

\* two_factor_login_complete_view: a TOTP code that is not six digits is
\* logged as a failure and answered 400 without a second look at the limit
TwoFactorLoginComplete(attempts, user, ip_address, outcome, t) ==
    IF IsRateLimited(attempts, user, ip_address, t).limited
    THEN [attempts |-> attempts, status |-> 429]
    ELSE IF outcome = "malformed"
    THEN [attempts |-> TfLogged(attempts, user, ip_address, FALSE, t), status |-> 400]
    ELSE TwoFactorVerify(attempts, user, ip_address, outcome, t)

\* what is_rate_limited would answer the user now
TfLimitedNow(user, ip_address) == IsRateLimited(tf_attempts, user, ip_address, now).limited

TfViewTickSteps == {60, 1740}
\* time passes; it keeps passing while a user is locked out
TfViewTick ==
    /\ \/ nticks < MaxTfTicks
       \/ \E user \in TfUsers, ip_address \in TfIPs : TfLimitedNow(user, ip_address)
    /\ nticks' = nticks + 1
    /\ \E d \in TfViewTickSteps : now' = now + d
    /\ UNCHANGED <<config, redis_db, cache_db, visitor_logs, callVars, webVars, unitVars, cfgVars>>

TfViewFrame == <<now, config, redis_db, cache_db, visitor_logs, history, ncalls, webVars,
                 blocked_ips, procs, nticks, cfgVars>>

TfVerifyView(user, ip_address, outcome) ==
    /\ TfLimitedNow(user, ip_address) \/ BagCardinality(tf_attempts) < MaxTfAttempts
    /\ \E r \in {TwoFactorVerify(tf_attempts, user, ip_address, outcome, now)} :
          /\ tf_attempts' = r.attempts
          /\ obs' = [op |-> "tf_view", view |-> "verify", user |-> user,
                     ip_address |-> ip_address, status |-> r.status,
                     logged |-> r.attempts # tf_attempts]
    /\ UNCHANGED TfViewFrame

TfLoginCompleteView(user, ip_address, outcome) ==
    /\ TfLimitedNow(user, ip_address) \/ BagCardinality(tf_attempts) < MaxTfAttempts
    /\ \E r \in {TwoFactorLoginComplete(tf_attempts, user, ip_address, outcome, now)} :
          /\ tf_attempts' = r.attempts
          /\ obs' = [op |-> "tf_view", view |-> "login_complete", user |-> user,
                     ip_address |-> ip_address, status |-> r.status,
                     logged |-> r.attempts # tf_attempts]
    /\ UNCHANGED TfViewFrame

TwoFactorViewNext ==
    \/ TfViewTick
    \/ \E user \in TfUsers, ip_address \in TfIPs, outcome \in TfOutcomes \ {"malformed"} :
          TfVerifyView(user, ip_address, outcome)
    \/ \E user \in TfUsers, ip_address \in TfIPs, outcome \in TfOutcomes :
          TfLoginCompleteView(user, ip_address, outcome)

TwoFactorViewSpec == StoreInit /\ [][TwoFactorViewNext]_vars /\ WF_vars(TfViewTick)

\* the failure counts is_rate_limited reads for the user and the address
TfFailureCounts(attempts, user, ip_address, t) ==
    <<TfCount(attempts, {a \in BagToSet(attempts) :
                            a.user = user /\ ~a.success /\ a.created_at >= t - 900}),
      TfCount(attempts, {a \in BagToSet(attempts) :
                            a.user = user /\ ~a.success /\ a.created_at >= t - 1800}),
      TfCount(attempts, {a \in BagToSet(attempts) :
                            a.ip_address = ip_address /\ ~a.success
                            /\ a.created_at >= t - 900})>>

\* a request to a verification view made while the user is limited is
\* answered 429 and logs nothing; a request that logs a successful attempt
\* leaves the failure counts as they were
TfViewStep ==
    \A user \in TfUsers, ip_address \in TfIPs :
        (obs'.op = "tf_view" /\ obs'.user = user /\ obs'.ip_address = ip_address
         /\ now' = now /\ <<tf_attempts, obs>>' # <<tf_attempts, obs>>) =>
            /\ TfLimitedNow(user, ip_address) =>
                  (tf_attempts' = tf_attempts /\ obs'.status = 429)
            /\ obs'.status = 200 =>
                  TfFailureCounts(tf_attempts', user, ip_address, now)
                      = TfFailureCounts(tf_attempts, user, ip_address, now)

\* C30: the verification views answer 429 without logging while the user
\* is limited and a logged success leaves the failure counts unchanged, so
\* whatever requests the user keeps sending, a limited user is eventually
\* not limited again.
C30_LockoutNotProlonged ==
    /\ [][TfViewStep]_vars
    /\ \A user \in TfUsers, ip_address \in TfIPs :
          TfLimitedNow(user, ip_address) ~> ~TfLimitedNow(user, ip_address)

\* a request of a limited user answered 429 with nothing logged, five
\* failures in the table
C30_Witness ==
    /\ obs.op = "tf_view"
    /\ obs.status = 429
    /\ ~obs.logged
    /\ BagCardinality(tf_attempts) = 5
    /\ TfLimitedNow(obs.user, obs.ip_address)

====
